---- MODULE Spec2Model ----
(***************************************************************************)
(* Model of the query orchestration of the ndc-calcite connector:          *)
(* crates/connectors/ndc-calcite/src/{query.rs, sql.rs, calcite.rs}.       *)
(*                                                                         *)
(* orchestrate_query is a synchronous, depth-first recursive function.     *)
(* Its activation records are kept on an explicit stack; one action is one  *)
(* code segment between two calls of the execution gateway (calcite_query). *)
(* The engine behind the gateway is the environment: it holds two tables,   *)
(* answers a statement from them, and may fail on any call.                 *)
(***************************************************************************)
EXTENDS Integers, Sequences, FiniteSets, TLC

VARIABLES
    config,     \* ParsedConfiguration: [fixes]
    engine,     \* the engine behind the gateway: [tables, dropNulls]
    request,    \* the top-level QueryParams: [coll, coll_rel, args, query, vars]
    stack,      \* activation records of orchestrate_query, innermost last
    stmts,      \* statements submitted to the gateway so far, in order
    outcome,    \* what the top-level orchestrate_query gave its caller
    jvm,        \* the process-wide Mutex<JavaVM>: [holder, poisoned, running]
    threads,    \* the request threads calling calcite_query: [pc, reply, result, calls]
    cli         \* the CLI update command and the configuration file it works on

vars == <<config, engine, request, stack, stmts, outcome, jvm, threads, cli>>

----------------------------------------------------------------------------
(* Bounds of the model *)

MaxParents == 2
MaxChildren == 3
MaxPage == 2
MaxThreads == 2
MaxCalls == 2

----------------------------------------------------------------------------
(* serde_json::Value, Option, Result *)

Null == [k |-> "null"]
Num(n) == [k |-> "num", n |-> n]
Str(s) == [k |-> "str", s |-> s]
Arr(s) == [k |-> "array", a |-> s]
Obj(f) == [k |-> "object", o |-> f]

None == [k |-> "none"]
Some(x) == [k |-> "some", v |-> x]
IsSome(o) == o.k = "some"

Ok(x) == [k |-> "Ok", v |-> x]
Err(e) == [k |-> "Err", e |-> e]
Panic(at) == [k |-> "Panic", at |-> at]
IsOk(r) == r.k = "Ok"

Range(s) == {s[i] : i \in 1..Len(s)}

\* s[from+1 .. to], the Rust slice s[from..to]
Slice(s, from, to) == SubSeq(s, from + 1, to)

\* every sequence over S of length 0..n
SeqsUpTo(S, n) == UNION {[1..m -> S] : m \in 0..n}

----------------------------------------------------------------------------
(* u32 arithmetic of limit and offset, on two 16-bit limbs so that the      *)
(* 32-bit width is kept exactly.                                            *)

Limb == 65536

U32(n) == [hi |-> 0, lo |-> n]
U32_MAX == [hi |-> Limb - 1, lo |-> Limb - 1]

\* a + b on u32: the wrapped sum and whether it overflowed
U32Add(a, b) ==
    LET lo == a.lo + b.lo
        hi == a.hi + b.hi + (lo \div Limb)
    IN  [overflow |-> hi >= Limb, hi |-> hi % Limb, lo |-> lo % Limb]

\* a.min(n as u32), for a length n < Limb
U32MinLen(a, n) == IF a.hi > 0 \/ a.lo > n THEN n ELSE a.lo

\* a > n, for a length n < Limb
U32Gt(a, n) == a.hi > 0 \/ a.lo > n

U32IsZero(a) == a.hi = 0 /\ a.lo = 0

----------------------------------------------------------------------------
(* IndexMap<FieldName, _> (Query.fields, Query.aggregates): a sequence of   *)
(* [name, val] entries with distinct names, in insertion order.             *)

Entry(name, val) == [name |-> name, val |-> val]
Keys(m) == {m[i].name : i \in 1..Len(m)}
ContainsKey(m, key) == key \in Keys(m)
\* IndexMap::insert: replaces the value in place, or appends
Insert(m, key, val) ==
    IF ContainsKey(m, key)
    THEN [i \in 1..Len(m) |-> IF m[i].name = key THEN Entry(key, val) ELSE m[i]]
    ELSE Append(m, Entry(key, val))

\* Option::unwrap_or_default on an optional map
UnwrapOrDefault(o) == IF IsSome(o) THEN o.v ELSE <<>>

(* Row = IndexMap<FieldName, RowFieldValue>: a function from its keys.      *)
EmptyRow == [x \in {} |-> Null]
Put(row, key, val) == [x \in DOMAIN row \cup {key} |-> IF x = key THEN val ELSE row[x]]
Remove(row, key) == [x \in DOMAIN row \ {key} |-> row[x]]

----------------------------------------------------------------------------
(* ndc_models: Field, Aggregate, Relationship, RelationshipArgument          *)

ColumnField(column) == [t |-> "Column", column |-> column]
RelationshipField(query, relationship, arguments) ==
    [t |-> "Relationship", query |-> query, relationship |-> relationship,
     arguments |-> arguments]

StarCount == [t |-> "StarCount"]
SingleColumn(column, function) ==
    [t |-> "SingleColumn", column |-> column, function |-> function]

Variable(name) == [t |-> "Variable", name |-> name]
Literal(value) == [t |-> "Literal", value |-> value]

OrderByColumn(name, dir) == [t |-> "Column", name |-> name, order_direction |-> dir]
OrderByStarCount == [t |-> "StarCountAggregate"]

BinaryComparison(column, operator, value) ==
    [t |-> "BinaryComparisonOperator", column |-> column, operator |-> operator,
     value |-> value]
\* ComparisonValue::Variable; a ComparisonValue::Scalar is its JSON value
VariableValue(name) == [k |-> "variable", name |-> name]
Not(expression) == [t |-> "Not", expression |-> expression]
Exists(relationship, arguments, predicate) ==
    [t |-> "Exists", relationship |-> relationship, arguments |-> arguments,
     predicate |-> predicate]

Object == "object"
Array == "array"

----------------------------------------------------------------------------
(* sql.rs: the Query Plan Builder.  A phrase (select, aggregates, order_by) *)
(* is kept as the sequence of the items that the code joins with ","; the   *)
(* joined text is empty exactly when the sequence is.                       *)

\* sql.rs eval_argument
eval_argument(variables, argument) ==
    CASE argument.t = "Variable" ->
            IF argument.name \in DOMAIN variables
            THEN Ok(variables[argument.name])
            ELSE Err([kind |-> "Other", message |-> "Variable not found",
                      details |-> Str(argument.name)])
      [] argument.t = "Literal" -> Ok(argument.value)
      [] OTHER -> Panic("eval_argument: todo!()")

\* the items of the projection list
ColumnItem(column, key) == [t |-> "column", column |-> column, alias |-> key]
PlaceholderItem(key) == [t |-> "constant", column |-> "1", alias |-> key]
KeyItem(pk) == [t |-> "bare", column |-> pk, alias |-> pk]
AggregateItem(name, aggregate) == [t |-> "aggregate", aggregate |-> aggregate, alias |-> name]

\* Vec::push unless Vec::contains
PushNew(statements, item) ==
    IF item \in Range(statements) THEN statements ELSE Append(statements, item)

RECURSIVE PushKeys(_, _, _)
PushKeys(statements, column_mapping, i) ==
    IF i > Len(column_mapping) THEN statements
    ELSE PushKeys(PushNew(statements, KeyItem(column_mapping[i][1])), column_mapping, i + 1)

RECURSIVE SelectFrom(_, _, _, _)
SelectFrom(fields, collection_relationships, i, field_statements) ==
    IF i > Len(fields) THEN field_statements
    ELSE LET key == fields[i].name
             field == fields[i].val
         IN  IF field.t = "Column"
             THEN SelectFrom(fields, collection_relationships, i + 1,
                             PushNew(field_statements, ColumnItem(field.column, key)))
             ELSE LET placed == Append(field_statements, PlaceholderItem(key))
                  IN  SelectFrom(fields, collection_relationships, i + 1,
                        IF field.relationship \in DOMAIN collection_relationships
                        THEN PushKeys(placed,
                               collection_relationships[field.relationship].column_mapping, 1)
                        ELSE placed)

\* sql.rs select: the field statements (the join statements are always empty)
select(query, collection_relationships) ==
    SelectFrom(UnwrapOrDefault(query.fields), collection_relationships, 1, <<>>)

\* sql.rs order_by: todo!() on an aggregate target
order_by(query) ==
    IF ~IsSome(query.order_by) THEN Ok(<<>>)
    ELSE IF \E i \in 1..Len(query.order_by.v) : query.order_by.v[i].t # "Column"
         THEN Panic("order_by: todo!()")
         ELSE Ok(query.order_by.v)

\* sql.rs pagination: a clause for each of limit and offset that is present
pagination(query) == [limit |-> query.limit, offset |-> query.offset]

\* a slip in the aggregates phrase: it is left empty
NoAggregates(query) == <<>>

\* sql.rs aggregates
aggregates(query) ==
    LET m == UnwrapOrDefault(query.aggregates)
    IN  [i \in 1..Len(m) |-> AggregateItem(m[i].name, m[i].val)]

\* the Catalog: configuration.metadata, one TableMetadata per collection
Collections == {"orders", "customers"}
Metadata ==
    [c \in Collections |->
        [catalog |-> None, schema |-> None, name |-> c,
         columns |-> IF c = "orders" THEN {"id", "customer_id"} ELSE {"id", "name"}]]

\* A text is kept as the sequence of its lexical tokens; the characters the
\* code looks at one by one (brackets, parentheses, quotes) are tokens of
\* their own, and the blanks between tokens are left out.
Quoted(text) == <<"\"">> \o text \o <<"\"">>

RECURSIVE Join(_, _, _)
Join(texts, separator, i) ==
    IF i > Len(texts) THEN <<>>
    ELSE (IF i > 1 THEN <<separator>> ELSE <<>>) \o texts[i] \o Join(texts, separator, i + 1)

RECURSIVE to_string(_)
RECURSIVE Members(_, _)
\* the members of a JSON object, in the order the map iterates
Members(object, keys) ==
    IF keys = {} THEN <<>>
    ELSE LET key == CHOOSE x \in keys : TRUE
         IN  <<Quoted(<<key>>) \o <<":">> \o to_string(object[key])>>
                \o Members(object, keys \ {key})

\* serde_json: Value::to_string
to_string(value) ==
    IF "k" \notin DOMAIN value     \* a row kept as it is inside a row set
    THEN <<"{">> \o Join(Members(value, DOMAIN value), ",", 1) \o <<"}">>
    ELSE CASE value.k = "null" -> <<"null">>
           [] value.k = "num" -> <<ToString(value.n)>>
           [] value.k = "str" -> Quoted(<<value.s>>)
           [] value.k = "array" ->
                 <<"[">> \o Join([i \in 1..Len(value.a) |-> to_string(value.a[i])], ",", 1)
                        \o <<"]">>
           [] OTHER -> <<"{">> \o Join(Members(value.o, DOMAIN value.o), ",", 1) \o <<"}">>

\* a slip in the brackets: the text is left as it is
KeepBrackets(input) == input

\* sql.rs sql_brackets
sql_brackets(input) ==
    IF input # <<>> /\ Head(input) = "[" /\ input[Len(input)] = "]"
    THEN <<"(">> \o SubSeq(input, 2, Len(input) - 1) \o <<")">>
    ELSE input

\* sql.rs sql_quotes
sql_quotes(input) ==
    [i \in 1..Len(input) |->
        CASE input[i] = "'" -> "\\'"
          [] input[i] = "\"" -> "__UTF8__"
          [] OTHER -> input[i]]

\* sql.rs create_column_name
create_column_name(name, field_path) ==
    IF ~IsSome(field_path) THEN <<name>>
    ELSE Join([i \in 1..Len(field_path.v) |-> <<field_path.v[i]>>], ".", 1) \o <<name>>

\* sql.rs create_qualified_table_name
create_qualified_table_name(table_metadata) ==
    LET part(o) == IF IsSome(o) /\ o.v # "" THEN <<Quoted(<<o.v>>)>> ELSE <<>>
    IN  Join(part(table_metadata.catalog) \o part(table_metadata.schema)
                \o <<Quoted(<<table_metadata.name>>)>>, ".", 1)

\* sql.rs process_sql_expression: operation_tuples
sql_operations ==
    [op \in {"_gt", "_lt", "_gte", "_lte", "_eq", "_in", "_like"} |->
        CASE op = "_gt" -> ">" [] op = "_lt" -> "<" [] op = "_gte" -> ">="
          [] op = "_lte" -> "<=" [] op = "_eq" -> "=" [] op = "_in" -> "IN"
          [] OTHER -> "LIKE"]

\* fmt::Debug of an Ok(String): the text between double quotes, with each
\* double quote and each backslash of it behind a backslash (the tokens with
\* such characters are ", \' and \", the last one from a Debug inside)
DebugOk(text) ==
    <<"Ok", "(", "\"">>
        \o [i \in 1..Len(text) |->
              CASE text[i] = "\"" -> "\\\""
                [] text[i] = "\\'" -> "\\\\'"
                [] text[i] = "\\\"" -> "\\\\\\\""
                [] OTHER -> text[i]]
        \o <<"\"", ")">>

RECURSIVE create_arguments(_, _, _)
\* sql.rs create_arguments: a LIMIT or OFFSET part for the arguments of
\* these names, nothing for the others
create_arguments(variables, arguments, i) ==
    IF i > Len(arguments) THEN Ok(<<>>)
    ELSE LET arg == arguments[i].val
             rest == create_arguments(variables, arguments, i + 1)
             value == IF arg.t = "Variable" THEN to_string(variables[arg.name])
                      ELSE to_string(arg.value)
         IN  IF arg.t = "Variable" /\ arg.name \notin DOMAIN variables
             THEN Panic("create_arguments: variables.get(name).unwrap()")
             ELSE IF ~IsOk(rest) THEN rest
             ELSE Ok((CASE arguments[i].name = "limit" -> <<"LIMIT">> \o value
                        [] arguments[i].name = "offset" -> <<"OFFSET">> \o value
                        [] OTHER -> <<>>) \o rest.v)

\* '<table>."<source>" = "<target>"' for each pair of the column mapping
sub_query_clause(table, column_mapping) ==
    Join([i \in 1..Len(column_mapping) |->
            table \o <<".">> \o Quoted(<<column_mapping[i][1]>>) \o <<"=">>
                  \o Quoted(<<column_mapping[i][2]>>)], "AND", 1)

\* sql.rs process_sql_expression, Expression::Not, given what the inner
\* expression compiled to: the Result is formatted with {:?}
not_expression(inner) ==
    IF inner.k = "Panic" THEN inner
    ELSE Ok(<<"(", "NOT">> \o DebugOk(inner.v) \o <<")">>)

\* sql.rs process_sql_expression, Expression::Exists in a related
\* collection, given what the nested predicate compiled to
exists_expression(collection, collection_relationships, variables, expr, expression) ==
    LET table == create_qualified_table_name(Metadata[collection])
        argument_parts == create_arguments(variables, expr.arguments, 1)
        root_relationship == collection_relationships[expr.relationship]
        foreign_table == create_qualified_table_name(
                            Metadata[root_relationship.target_collection])
    IN  IF ~IsOk(argument_parts) THEN argument_parts
        ELSE IF expr.relationship \notin DOMAIN collection_relationships
        THEN Panic("process_sql_expression: collection_relationships.get(relationship).unwrap()")
        ELSE IF ~IsSome(expr.predicate) THEN Ok(<<>>)
        ELSE IF ~IsOk(expression) THEN expression
        ELSE Ok(<<"EXISTS", "(", "SELECT", "1", "FROM">> \o foreign_table
                  \o <<"WHERE", "(">>
                  \o sub_query_clause(table, root_relationship.column_mapping)
                  \o <<"AND">> \o expression.v \o <<")">>
                  \o argument_parts.v \o <<")">>)

\* sql.rs process_sql_expression, Expression::BinaryComparisonOperator of a
\* column with a scalar or with a variable
binary_comparison(collection, variables, expr) ==
    IF expr.operator \notin DOMAIN sql_operations
    THEN Panic("process_sql_expression: sql_operations.get(operator).unwrap()")
    ELSE LET left_side == Quoted(create_column_name(expr.column, None))
             sql_value == sql_quotes(sql_brackets(to_string(expr.value)))
             table == create_qualified_table_name(Metadata[collection])
             right_side ==
                 IF expr.value.k = "variable"
                 THEN to_string(variables[expr.value.name])
                 ELSE IF sql_value = <<"(", ")">>
                 THEN <<"(", "SELECT">> \o left_side \o <<"FROM">> \o table
                         \o <<"WHERE", "FALSE", ")">>
                 ELSE sql_value
         IN  IF expr.value.k = "variable" /\ expr.value.name \notin DOMAIN variables
             THEN Panic("process_sql_expression: variables.get(name).unwrap()")
             ELSE Ok(left_side \o <<sql_operations[expr.operator]>> \o right_side)

RECURSIVE process_sql_expression(_, _, _, _)
\* sql.rs process_sql_expression: the recursion over the expression, with
\* the collection handed down as it is
process_sql_expression(collection, collection_relationships, variables, expr) ==
    CASE expr.t = "Not" ->
            not_expression(process_sql_expression(collection, collection_relationships,
                                                  variables, expr.expression))
      [] expr.t = "Exists" ->
            exists_expression(collection, collection_relationships, variables, expr,
                IF IsSome(expr.predicate)
                THEN process_sql_expression(collection, collection_relationships,
                                            variables, expr.predicate.v)
                ELSE Ok(<<>>))
      [] OTHER -> binary_comparison(collection, variables, expr)

\* sql.rs predicates and process_expression_option: the filter's text, empty
\* when the query has no predicate
predicates(collection, collection_relationships, variables, query) ==
    IF ~IsSome(query.predicate) THEN Ok(<<>>)
    ELSE process_sql_expression(collection, collection_relationships, variables,
                                query.predicate.v)

RECURSIVE EvalArguments(_, _, _)
\* the first argument, in the BTreeMap's order, whose evaluation fails
EvalArguments(arguments, variables, i) ==
    IF i > Len(arguments) THEN Ok(<<>>)
    ELSE LET r == eval_argument(variables, arguments[i].val)
         IN  IF ~IsOk(r) THEN r
             ELSE LET rest == EvalArguments(arguments, variables, i + 1)
                  IN  IF ~IsOk(rest) THEN rest
                      ELSE Ok(<<Entry(arguments[i].name, r.v)>> \o rest.v)

\* sql.rs parse_query
parse_query(collection, collection_relationships, arguments, query, variables) ==
    LET argument_values == EvalArguments(arguments, variables, 1)
        ord == order_by(query)
        filter == predicates(collection, collection_relationships, variables, query)
    IN  IF ~IsOk(argument_values) THEN argument_values
        ELSE IF ~IsOk(ord) THEN ord
        ELSE IF filter.k = "Err"
        THEN Err([kind |-> "InvalidRequest", message |-> filter.e.message, details |-> Null])
        ELSE IF ~IsOk(filter) THEN filter
        ELSE Ok([argument_values |-> argument_values.v,
                 select |-> select(query, collection_relationships),
                 order_by |-> ord.v,
                 pagination |-> pagination(query),
                 aggregates |-> aggregates(query),
                 predicates |-> filter.v])

\* sql.rs query_collection: the statement for one phrase
query_collection(collection_name, phrase, order, page, where_clause) ==
    [collection |-> collection_name,
     select |-> IF phrase = <<>> THEN <<PlaceholderItem("CONSTANT")>> ELSE phrase,
     where |-> where_clause,
     order_by |-> order, pagination |-> page]

----------------------------------------------------------------------------
(* The engine behind the gateway (Calcite, reached through JNI).  It holds  *)
(* one table per collection and answers a statement from them: filter,      *)
(* order, paginate, project.  An adapter may leave null-valued fields out   *)
(* of the JSON object of a row (engine.dropNulls).                          *)

\* the numerals the engine reads
Numerals == 0..9
IsNumeral(token) == \E n \in Numerals : ToString(n) = token

RECURSIVE ReadLiterals(_)
\* the literals of a comma-separated list, or Err when it is not one
ReadLiterals(tokens) ==
    LET string == Len(tokens) >= 3 /\ tokens[1] = "__UTF8__" /\ tokens[3] = "__UTF8__"
        used == IF string THEN 3 ELSE 1
        literal == IF string THEN Str(tokens[2])
                   ELSE IF tokens[1] = "null" THEN Null
                   ELSE Num(CHOOSE n \in Numerals : ToString(n) = tokens[1])
        rest == SubSeq(tokens, used + 1, Len(tokens))
        more == ReadLiterals(Tail(rest))
    IN  IF tokens = <<>> THEN Err("an empty list")
        ELSE IF ~string /\ tokens[1] # "null" /\ ~IsNumeral(tokens[1]) THEN Err("not a literal")
        ELSE IF rest = <<>> THEN Ok(<<literal>>)
        ELSE IF rest[1] # "," \/ ~IsOk(more) THEN Err("not a list")
        ELSE Ok(<<literal>> \o more.v)

\* the engine's reading of a filter text: the column, the operator and the
\* values compared with, or Err when the text is no filter over the table
ReadFilter(where_clause, collection) ==
    LET n == Len(where_clause)
        rhs == SubSeq(where_clause, 5, n)
        listed == rhs[1] = "(" /\ rhs[Len(rhs)] = ")"
        nothing == /\ Len(rhs) >= 2 /\ rhs[1] = "(" /\ rhs[2] = "SELECT"
                   /\ \E table \in Collections :
                         rhs = <<"(", "SELECT">> \o SubSeq(where_clause, 1, 3) \o <<"FROM">>
                                  \o Quoted(<<table>>) \o <<"WHERE", "FALSE", ")">>
        values == IF nothing THEN Ok(<<>>)
                  ELSE IF listed THEN ReadLiterals(SubSeq(rhs, 2, Len(rhs) - 1))
                  ELSE ReadLiterals(rhs)
    IN  IF n < 5 \/ where_clause[1] # "\"" \/ where_clause[3] # "\"" THEN Err("no column")
        ELSE IF where_clause[2] \notin Metadata[collection].columns THEN Err("unknown column")
        ELSE IF where_clause[4] \notin {"IN", "="} THEN Err("operator")
        ELSE IF ~IsOk(values) THEN values
        ELSE IF where_clause[4] = "=" /\ (listed \/ Len(values.v) # 1) THEN Err("not a scalar")
        ELSE IF where_clause[4] = "IN" /\ ~listed THEN Err("not a list")
        ELSE Ok([column |-> where_clause[2], values |-> values.v])

\* the reading of a sub-query, given the reading of its filter
Correlated(target, source, column, filter) ==
    IF ~IsOk(filter) THEN filter
    ELSE Ok([target |-> target, source |-> source, column |-> column,
             filter |-> filter.v])

\* the engine's reading of
\* 'EXISTS (SELECT 1 FROM "<target>" WHERE ("<table>"."<source>" = "<column>" AND <filter>))':
\* the target table, the correlated columns and the filter over the target,
\* or Err when the text is not of this form over the tables
ReadExists(where_clause, collection) ==
    LET n == Len(where_clause)
        target == where_clause[7]
    IN  IF n < 25 \/ SubSeq(where_clause, 1, 6) # <<"EXISTS", "(", "SELECT", "1", "FROM", "\"">>
                  \/ SubSeq(where_clause, 8, 11) # <<"\"", "WHERE", "(", "\"">>
                  \/ SubSeq(where_clause, 13, 15) # <<"\"", ".", "\"">>
                  \/ SubSeq(where_clause, 17, 19) # <<"\"", "=", "\"">>
                  \/ SubSeq(where_clause, 21, 22) # <<"\"", "AND">>
                  \/ SubSeq(where_clause, n - 1, n) # <<")", ")">>
        THEN Err("no sub-query")
        ELSE IF target \notin Collections \/ where_clause[12] # collection
        THEN Err("unknown table")
        ELSE IF where_clause[16] \notin Metadata[collection].columns
                  \/ where_clause[20] \notin Metadata[target].columns
        THEN Err("unknown column")
        ELSE Correlated(target, where_clause[16], where_clause[20],
                        ReadFilter(SubSeq(where_clause, 23, n - 2), target))

\* a filter, as read, on one stored row
HoldsFilter(e, row) ==
    LET x == row[e.column]
    IN  x # Null /\ x \in Range(e.values)

\* a sub-query, as read, on one stored row: a row of the target has the
\* row's value in the correlated column and passes the filter
HoldsExists(eng, e, row) ==
    \E j \in 1..Len(eng.tables[e.target]) :
        /\ row[e.source] # Null
        /\ row[e.source] = eng.tables[e.target][j][e.column]
        /\ HoldsFilter(e.filter, eng.tables[e.target][j])

\* the filter of a statement on one stored row
Holds(eng, where_clause, collection, row) ==
    IF where_clause = <<>> THEN TRUE
    ELSE IF Head(where_clause) = "EXISTS"
    THEN HoldsExists(eng, ReadExists(where_clause, collection).v, row)
    ELSE HoldsFilter(ReadFilter(where_clause, collection).v, row)

\* the statement names only columns of its table and its filter reads as one
Valid(statement) ==
    /\ statement.collection \in Collections
    /\ \A i \in 1..Len(statement.select) :
          \/ statement.select[i].t = "constant"
          \/ statement.select[i].t = "aggregate" /\ statement.select[i].aggregate.t = "StarCount"
          \/ statement.select[i].t = "aggregate"
                /\ statement.select[i].aggregate.t # "StarCount"
                /\ statement.select[i].aggregate.column \in Metadata[statement.collection].columns
          \/ statement.select[i].t \in {"column", "bare"}
                /\ statement.select[i].column \in Metadata[statement.collection].columns
    /\ \A i \in 1..Len(statement.order_by) :
          statement.order_by[i].name \in Metadata[statement.collection].columns
    /\ \/ statement.where = <<>>
       \/ Head(statement.where) = "EXISTS"
             /\ IsOk(ReadExists(statement.where, statement.collection))
       \/ Head(statement.where) # "EXISTS"
             /\ IsOk(ReadFilter(statement.where, statement.collection))

RECURSIVE InsertSorted(_, _, _, _)
\* row put into the sorted sequence, after its equals
InsertSorted(sorted, row, column, dir) ==
    IF sorted = <<>> THEN <<row>>
    ELSE LET h == Head(sorted)
             before == IF dir = "asc" THEN row[column].n < h[column].n
                                      ELSE row[column].n > h[column].n
         IN  IF before THEN <<row>> \o sorted
             ELSE <<h>> \o InsertSorted(Tail(sorted), row, column, dir)

RECURSIVE SortRows(_, _, _, _)
SortRows(rows, column, dir, i) ==
    IF i > Len(rows) THEN <<>>
    ELSE InsertSorted(SortRows(rows, column, dir, i + 1), rows[i], column, dir)

\* ORDER BY on the first order element (a non-null numeric column)
Ordered(rows, order) ==
    IF order = <<>> THEN rows
    ELSE LET asc == SortRows(rows, order[1].name, "asc", 1)
         IN  IF order[1].order_direction = "asc" THEN asc
             ELSE [i \in 1..Len(asc) |-> asc[Len(asc) + 1 - i]]

\* OFFSET then LIMIT
Paged(rows, page) ==
    LET skip == IF IsSome(page.offset) THEN U32MinLen(page.offset.v, Len(rows)) ELSE 0
        rest == Slice(rows, skip, Len(rows))
        take == IF IsSome(page.limit) THEN U32MinLen(page.limit.v, Len(rest)) ELSE Len(rest)
    IN  Slice(rest, 0, take)

RECURSIVE SumOf(_, _, _)
SumOf(rows, column, i) ==
    IF i > Len(rows) THEN 0
    ELSE (IF rows[i][column] = Null THEN 0 ELSE rows[i][column].n) + SumOf(rows, column, i + 1)

AggregateValue(aggregate, rows) ==
    IF aggregate.t = "StarCount" THEN Num(Len(rows))
    ELSE IF \A i \in 1..Len(rows) : rows[i][aggregate.column] = Null THEN Null
         ELSE Num(SumOf(rows, aggregate.column, 1))

\* the JSON object of one result row; of two items of one name the later wins
Projected(items, row, rows) ==
    LET last(a) == CHOOSE i \in 1..Len(items) :
                      /\ items[i].alias = a
                      /\ \A j \in (i + 1)..Len(items) : items[j].alias # a
        val(it) == CASE it.t = "constant" -> Num(1)
                     [] it.t = "aggregate" -> AggregateValue(it.aggregate, rows)
                     [] OTHER -> row[it.column]
    IN  [a \in {items[i].alias : i \in 1..Len(items)} |-> val(items[last(a)])]

DropNulls(row) == [x \in {y \in DOMAIN row : row[y] # Null} |-> row[x]]

IsAggregateStatement(statement) ==
    \E i \in 1..Len(statement.select) : statement.select[i].t = "aggregate"

\* the projection of each row of the page
Projections(statement, paged, kept) ==
    [i \in 1..Len(paged) |-> Projected(statement.select, paged[i], kept)]

\* the rows of the result, given the stored rows that pass the filter
ResultRows(statement, kept) ==
    IF IsAggregateStatement(statement)
    THEN Paged(<<Projected(statement.select, EmptyRow, kept)>>, statement.pagination)
    ELSE Projections(statement, Paged(Ordered(kept, statement.order_by),
                                      statement.pagination), kept)

\* the engine leaves the null values out of its rows, or does not
Serialized(eng, flat) ==
    IF eng.dropNulls THEN [i \in 1..Len(flat) |-> DropNulls(flat[i])] ELSE flat

\* the rows the engine answers a statement with
EngineRows(eng, statement) ==
    Serialized(eng, ResultRows(statement,
        SelectSeq(eng.tables[statement.collection],
                  LAMBDA row : Holds(eng, statement.where, statement.collection, row))))

\* what a call of the engine can come back with: rows for a statement it
\* accepts, and for any statement an error raised, a text that is not a JSON
\* array of strings, or an array with a string that is not a JSON object
Replies(eng, statement) ==
    (IF Valid(statement) THEN {[t |-> "rows", rows |-> EngineRows(eng, statement)]} ELSE {})
        \cup {[t |-> "invalid"], [t |-> "exception"], [t |-> "unparsable"]}

----------------------------------------------------------------------------
(* calcite.rs: the execution gateway                                        *)

RECURSIVE Backfill(_, _, _)
Backfill(row, key_sample, i) ==
    IF i > Len(key_sample) THEN row
    ELSE Backfill(IF key_sample[i] \in DOMAIN row THEN row
                  ELSE Put(row, key_sample[i], Null), key_sample, i + 1)

\* calcite.rs fix_rows, on one row
fix_row(row, query_metadata) ==
    LET fields == UnwrapOrDefault(query_metadata.fields)
        aggs == UnwrapOrDefault(query_metadata.aggregates)
        max_keys == Len(fields) + Len(aggs)
        key_sample == [i \in 1..max_keys |->
                         IF i <= Len(fields) THEN fields[i].name
                         ELSE aggs[i - Len(fields)].name]
        filled == IF max_keys > Cardinality(DOMAIN row)
                  THEN Backfill(row, key_sample, 1) ELSE row
        nulled == [x \in DOMAIN filled |->
                     IF filled[x] = Str("null") THEN Null ELSE filled[x]]
    IN  Remove(nulled, "CONSTANT")

\* calcite.rs fix_rows
fix_rows(rows, query_metadata) ==
    [i \in 1..Len(rows) |-> fix_row(rows[i], query_metadata)]

\* calcite.rs calcite_query, given what the engine came back with
calcite_query(cfg, reply, query_metadata) ==
    CASE reply.t = "exception" -> Panic("calcite_query: result.unwrap()")
      [] reply.t = "unparsable" ->
            Panic("parse_to_row: serde_json::from_str(&item).unwrap()")
      [] reply.t = "invalid" ->
            Err([kind |-> "Other", message |-> "Invalid response from Calcite.",
                 details |-> Null])
      [] OTHER -> Ok(IF cfg.fixes THEN fix_rows(reply.rows, query_metadata)
                     ELSE reply.rows)

----------------------------------------------------------------------------
(* query.rs: relationship resolution                                        *)

Query(fields, aggs, limit, offset, order, predicate) ==
    [fields |-> fields, aggregates |-> aggs, limit |-> limit, offset |-> offset,
     order_by |-> order, predicate |-> predicate]

Relationship(column_mapping, relationship_type, target_collection) ==
    [column_mapping |-> column_mapping, relationship_type |-> relationship_type,
     target_collection |-> target_collection]

\* query.rs generate_value_from_rows
generate_value_from_rows(rows_data, sub_relationship) ==
    LET m == sub_relationship.column_mapping
        row_values(row) == [i \in 1..Len(m) |->
                              IF m[i][1] \in DOMAIN row THEN row[m[i][1]] ELSE Null]
    IN  Arr([r \in 1..Len(rows_data) |->
               IF Len(m) = 1 THEN row_values(rows_data[r])[1]
               ELSE Arr(row_values(rows_data[r]))])

\* a slip in the key check: two column pairs pass
AllowPairs(sub_relationship) ==
    LET pks == sub_relationship.column_mapping
    IN  IF Len(pks) > 2
        THEN Err([kind |-> "Other",
                  message |-> "Cannot create a sub-query based on a composite key",
                  details |-> Null])
        ELSE Ok([pks |-> pks,
                 fks |-> [i \in 1..Len(pks) |-> pks[i][1]],
                 relationship_type |-> sub_relationship.relationship_type])

\* query.rs parse_relationship
parse_relationship(sub_relationship) ==
    LET pks == sub_relationship.column_mapping
    IN  IF Len(pks) > 1
        THEN Err([kind |-> "Other",
                  message |-> "Cannot create a sub-query based on a composite key",
                  details |-> Null])
        ELSE Ok([pks |-> pks,
                 fks |-> [i \in 1..Len(pks) |-> pks[i][1]],
                 relationship_type |-> sub_relationship.relationship_type])

\* query.rs generate_predicate
generate_predicate(pks, value) ==
    IF pks = <<>> THEN Panic("generate_predicate: pks[0]")
    ELSE Ok(BinaryComparison(pks[1][2], "_in", value))

RECURSIVE InsertKeys(_, _, _)
InsertKeys(fields, pks, i) ==
    IF i > Len(pks) THEN fields
    ELSE InsertKeys(IF ContainsKey(fields, pks[i][2]) THEN fields
                    ELSE Insert(fields, pks[i][1], ColumnField(pks[i][2])),
                    pks, i + 1)

\* query.rs revise_query
revise_query(query, predicate, pks) ==
    IF ~IsSome(query.fields) THEN Panic("revise_query: query.fields.unwrap()")
    ELSE Ok([query EXCEPT !.predicate = Some(predicate),
                          !.offset = None,
                          !.limit = None,
                          !.fields = Some(InsertKeys(query.fields.v, pks, 1))])

\* a slip in the empty case: the empty list is written as it is
ListChildRows(child_rows) ==
    Obj([aggregates |-> Null, rows |-> Arr(child_rows)])

\* query.rs process_child_rows: the value written to the relationship field
process_child_rows(child_rows) ==
    Obj([aggregates |-> Null,
         rows |-> IF child_rows # <<>> THEN Arr(child_rows) ELSE Null])

\* the fetched child rows whose key equals the parent's key value
Matching(fk_rows, key, pk_value) ==
    SelectSeq(fk_rows, LAMBDA x : key \in DOMAIN x /\ x[key] = pk_value)

\* a slip in the truncation: the last match is kept
KeepLast(child_rows) ==
    IF Len(child_rows) > 1 THEN <<child_rows[Len(child_rows)]>> ELSE child_rows

\* Object cardinality: the first match only
KeepFirst(child_rows) ==
    IF Len(child_rows) > 1 THEN <<child_rows[1]>> ELSE child_rows

\* query.rs process_object_relationship, on one parent row
object_row(row, field_name, fk_rows, pks, fks) ==
    IF fks[1] \notin DOMAIN row
    THEN Panic("process_object_relationship: row.get(fks[0]).unwrap()")
    ELSE IF field_name \notin DOMAIN row THEN Ok(row)
    ELSE Ok(Put(row, field_name,
                process_child_rows(KeepFirst(Matching(fk_rows, pks[1][1], row[fks[1]])))))

\* Array cardinality: limit and offset applied to one parent's matches.
\* overflow_checks is the build: offset + limit panics (debug) or wraps (release).
Paginate(child_rows, limit, offset, overflow_checks) ==
    IF ~(~U32IsZero(limit) /\ child_rows # <<>>) THEN Ok(child_rows)
    ELSE LET sum == U32Add(offset, limit)
             max_rows == U32MinLen(sum, Len(child_rows))
         IN  IF sum.overflow /\ overflow_checks
             THEN Panic("process_array_relationship: attempt to add with overflow")
             ELSE IF U32Gt(offset, max_rows)
             THEN Panic("process_array_relationship: slice index starts past its end")
             ELSE Ok(Slice(child_rows, offset.lo, max_rows))

\* query.rs process_array_relationship, on one parent row
array_row(row, field_name, fk_rows, pks, fks, query, overflow_checks) ==
    LET offset == IF IsSome(query.offset) THEN query.offset.v ELSE U32(0)
        limit == IF IsSome(query.limit) THEN query.limit.v ELSE U32(0)
    IN  IF fks[1] \notin DOMAIN row
        THEN Panic("process_array_relationship: row.get(fks[0]).unwrap()")
        ELSE IF field_name \notin DOMAIN row THEN Ok(row)
        ELSE LET page == Paginate(Matching(fk_rows, pks[1][1], row[fks[1]]),
                                  limit, offset, overflow_checks)
             IN  IF ~IsOk(page) THEN page
                 ELSE Ok(Put(row, field_name, process_child_rows(page.v)))

\* the rows mapped one by one; the first panic is the result
Collect(results) ==
    IF \E i \in 1..Len(results) : ~IsOk(results[i])
    THEN results[CHOOSE i \in 1..Len(results) :
                    ~IsOk(results[i]) /\ \A j \in 1..(i - 1) : IsOk(results[j])]
    ELSE Ok(Some([i \in 1..Len(results) |-> results[i].v]))

\* query.rs process_object_relationship
process_object_relationship(rows, field_name, fk_rows, pks, fks) ==
    Collect([i \in 1..Len(rows) |-> object_row(rows[i], field_name, fk_rows, pks, fks)])

\* query.rs process_array_relationship
process_array_relationship(rows, field_name, fk_rows, pks, fks, query, overflow_checks) ==
    Collect([i \in 1..Len(rows) |->
               array_row(rows[i], field_name, fk_rows, pks, fks, query, overflow_checks)])

RECURSIVE DefaultZero(_, _, _)
DefaultZero(row, aggs, i) ==
    IF i > Len(aggs) THEN row
    ELSE DefaultZero(IF aggs[i].name \in DOMAIN row THEN row
                     ELSE Put(row, aggs[i].name, Num(0)), aggs, i + 1)

\* query.rs process_aggregates, given the result of execute_query_collection
process_aggregates(query, executed) ==
    CASE executed.k = "Panic" -> executed
      [] executed.k = "Err" -> Panic("process_aggregates: todo!()")
      [] OTHER ->
            IF ~IsSome(executed.v) THEN Ok(None)
            ELSE LET collection == executed.v.v
                     row == IF collection # <<>> THEN collection[1] ELSE EmptyRow
                 IN  Ok(Some(DefaultZero(row, UnwrapOrDefault(query.aggregates), 1)))

----------------------------------------------------------------------------
(* query.rs orchestrate_query as a state machine.  A frame is one           *)
(* activation: pc "parse" (before sql::parse_query), "rows" (before          *)
(* process_rows), "aggregates" (before process_aggregates), "fields" (in the *)
(* loop over the query's fields, at index idx), "await" (inside              *)
(* execute_query, the recursive call being the frame above).                 *)

Frame(coll, args, query) ==
    [coll |-> coll, args |-> args, query |-> query, pc |-> "parse",
     components |-> None, rows_data |-> None, parsed_aggregates |-> None,
     idx |-> 1, pending |-> None]

Top == stack[Len(stack)]
Running == stack # <<>>

SetTop(frame) == [stack EXCEPT ![Len(stack)] = frame]

\* an error or panic leaves every activation: `?` in execute_query and in
\* orchestrate_query hands an Err to the caller unchanged, a panic unwinds
Fail(r) == /\ outcome' = r
           /\ stack' = <<>>

\* an entry of the log: the statement, the depth of the activation that
\* submitted it, the phrase it selects, and how calcite_query came back
Submitted(statement, phrase_name, result) ==
    [statement |-> statement, depth |-> Len(stack), phrase |-> phrase_name,
     result |-> result.k]

\* the statement execute_query_collection builds for a phrase
StatementOf(frame, phrase) ==
    query_collection(frame.coll, phrase, frame.components.order_by,
                     frame.components.pagination, frame.components.predicates)

\* a slip in the loop: no field is taken for a relationship
SkipRelationships(fields, idx) == Len(fields) + 1

\* the first relationship field at or after idx, or Len + 1
NextRelationship(fields, idx) ==
    LET js == {j \in idx..Len(fields) : fields[j].val.t = "Relationship"}
    IN  IF js = {} THEN Len(fields) + 1
        ELSE CHOOSE j \in js : \A l \in js : j <= l

\* orchestrate_query, line 102: sql::parse_query(...)?
ParseQuery ==
    /\ Running /\ Top.pc = "parse"
    /\ LET r == parse_query(Top.coll, request.coll_rel, Top.args, Top.query, request.vars)
       IN  IF IsOk(r)
           THEN /\ stack' = SetTop([Top EXCEPT !.pc = "rows", !.components = r.v])
                /\ UNCHANGED outcome
           ELSE Fail(r)
    /\ UNCHANGED <<config, engine, request, stmts>>
    /\ UNCHANGED <<jvm, threads, cli>>

\* orchestrate_query, line 103: process_rows(...)?, that is
\* execute_query_collection with the select phrase
ProcessRows ==
    /\ Running /\ Top.pc = "rows"
    /\ LET phrase == Top.components.select
           q == StatementOf(Top, phrase)
       IN  IF phrase = <<>>
           THEN /\ stack' = SetTop([Top EXCEPT !.pc = "aggregates", !.rows_data = None])
                /\ UNCHANGED <<stmts, outcome>>
           ELSE \E reply \in Replies(engine, q) :
                  LET r == calcite_query(config, reply, Top.query)
                  IN  /\ stmts' = Append(stmts, Submitted(q, "select", r))
                      /\ IF IsOk(r)
                         THEN /\ stack' = SetTop([Top EXCEPT !.pc = "aggregates",
                                                             !.rows_data = Some(r.v)])
                              /\ UNCHANGED outcome
                         ELSE Fail(r)
    /\ UNCHANGED <<config, engine, request>>
    /\ UNCHANGED <<jvm, threads, cli>>

\* orchestrate_query, line 104: process_aggregates(...)?, that is
\* execute_query_collection with the aggregates phrase, then the defaults
ProcessAggregates ==
    /\ Running /\ Top.pc = "aggregates"
    /\ LET phrase == Top.components.aggregates
           q == StatementOf(Top, phrase)
           done(executed) ==
               LET r == process_aggregates(Top.query, executed)
               IN  IF IsOk(r)
                   THEN /\ stack' = SetTop([Top EXCEPT !.pc = "fields", !.idx = 1,
                                                       !.parsed_aggregates = r.v])
                        /\ UNCHANGED outcome
                   ELSE Fail(r)
       IN  IF phrase = <<>>
           THEN /\ done(Ok(None))
                /\ UNCHANGED stmts
           ELSE \E reply \in Replies(engine, q) :
                  LET r == calcite_query(config, reply, Top.query)
                  IN  /\ stmts' = Append(stmts, Submitted(q, "aggregates", r))
                      /\ done(IF IsOk(r) THEN Ok(Some(r.v)) ELSE r)
    /\ UNCHANGED <<config, engine, request>>
    /\ UNCHANGED <<jvm, threads, cli>>

\* orchestrate_query, lines 112-120: the next relationship field, up to the
\* recursive call inside execute_query
ResolveRelationship ==
    /\ Running /\ Top.pc = "fields" /\ IsSome(Top.rows_data)
    /\ LET fields == UnwrapOrDefault(Top.query.fields)
           j == NextRelationship(fields, Top.idx)
       IN  /\ j <= Len(fields)
           /\ LET field == fields[j].val
                  found == field.relationship \in DOMAIN request.coll_rel
                  sub_relationship == request.coll_rel[field.relationship]
                  parsed == parse_relationship(sub_relationship)
                  value == generate_value_from_rows(Top.rows_data.v, sub_relationship)
                  predicate == generate_predicate(parsed.v.pks, value)
                  revised == revise_query(field.query, predicate.v, parsed.v.pks)
              IN  CASE ~found -> Fail(Panic("orchestrate_query: coll_rel.get(relationship).unwrap()"))
                    [] found /\ ~IsOk(parsed) -> Fail(parsed)
                    [] found /\ IsOk(parsed) /\ ~IsOk(predicate) -> Fail(predicate)
                    [] found /\ IsOk(parsed) /\ IsOk(predicate) /\ ~IsOk(revised) -> Fail(revised)
                    [] OTHER ->
                        /\ stack' = Append(
                              SetTop([Top EXCEPT !.pc = "await", !.idx = j,
                                        !.pending = Some([field_name |-> fields[j].name,
                                                          pks |-> parsed.v.pks,
                                                          fks |-> parsed.v.fks,
                                                          relationship_type |-> parsed.v.relationship_type,
                                                          query |-> field.query])]),
                              Frame(sub_relationship.target_collection, field.arguments, revised.v))
                        /\ UNCHANGED outcome
    /\ UNCHANGED <<config, engine, request, stmts>>
    /\ UNCHANGED <<jvm, threads, cli>>

\* no relationship field is left in the loop of lines 106-131
LoopDone ==
    /\ Running /\ Top.pc = "fields"
    /\ \/ ~IsSome(Top.rows_data)
       \/ LET fields == UnwrapOrDefault(Top.query.fields)
          IN  NextRelationship(fields, Top.idx) > Len(fields)

RowSetOf(frame) == [aggregates |-> frame.parsed_aggregates, rows |-> frame.rows_data]

\* orchestrate_query, line 132, in the recursive call; then execute_query's
\* fk_rows.rows.unwrap() and lines 121-125 of the caller: the stitching
StitchRelationship ==
    /\ LoopDone /\ Len(stack) > 1
    /\ \E overflow_checks \in BOOLEAN :
         LET caller == stack[Len(stack) - 1]
             p == caller.pending.v
             row_set == RowSetOf(Top)
             stitched ==
                 IF ~IsSome(row_set.rows) THEN Panic("execute_query: fk_rows.rows.unwrap()")
                 ELSE IF p.relationship_type = Object
                 THEN process_object_relationship(caller.rows_data.v, p.field_name,
                                                  row_set.rows.v, p.pks, p.fks)
                 ELSE process_array_relationship(caller.rows_data.v, p.field_name,
                                                 row_set.rows.v, p.pks, p.fks, p.query,
                                                 overflow_checks)
         IN  IF IsOk(stitched)
             THEN /\ stack' = [SubSeq(stack, 1, Len(stack) - 1) EXCEPT ![Len(stack) - 1] =
                                 [caller EXCEPT !.pc = "fields", !.idx = caller.idx + 1,
                                                !.rows_data = stitched.v, !.pending = None]]
                  /\ UNCHANGED outcome
             ELSE Fail(stitched)
    /\ UNCHANGED <<config, engine, request, stmts>>
    /\ UNCHANGED <<jvm, threads, cli>>

\* orchestrate_query, line 132, in the top-level call
Return ==
    /\ LoopDone /\ Len(stack) = 1
    /\ outcome' = Ok(RowSetOf(Top))
    /\ stack' = <<>>
    /\ UNCHANGED <<config, engine, request, stmts>>
    /\ UNCHANGED <<jvm, threads, cli>>

Next ==
    \/ ParseQuery
    \/ ProcessRows
    \/ ProcessAggregates
    \/ ResolveRelationship
    \/ StitchRelationship
    \/ Return

----------------------------------------------------------------------------
(* calcite.rs calcite_query and jvm.rs get_jvm, as called by concurrent     *)
(* request threads.  JVM is a OnceCell<Mutex<JavaVM>>: a thread takes the   *)
(* guard, calls the engine's query method, reads the response and drops the *)
(* guard when calcite_query returns or unwinds.  A guard dropped while the  *)
(* thread panics poisons the mutex, and lock() of a poisoned mutex is an    *)
(* Err, which every call site unwraps.                                      *)

Threads == 1..MaxThreads
Unlocked == [holder |-> 0, poisoned |-> FALSE, running |-> {}]
Thread == [pc |-> "idle", reply |-> None, result |-> None, calls |-> 0]

\* a slip in the locking: the guard is not taken
NoAcquire(mutex, t) == mutex

\* Mutex::lock: the guard goes to thread t
Acquire(mutex, t) == [mutex EXCEPT !.holder = t]

\* the guard is dropped; dropped during a panic it poisons the mutex
Release(mutex, panicking) ==
    [mutex EXCEPT !.holder = 0, !.poisoned = @ \/ panicking]

\* the thread is back in its caller with the result of the call
Returned(t, result) ==
    [threads EXCEPT ![t] = [pc |-> "idle", reply |-> None, result |-> result,
                            calls |-> @.calls + 1]]

At(t, pc) == [threads EXCEPT ![t].pc = pc]

\* the statement of the request, as execute_query_collection hands it over
GatewayStatement ==
    LET parsed == parse_query(request.coll, request.coll_rel, request.args,
                              request.query, request.vars)
        frame == [Frame(request.coll, request.args, request.query)
                     EXCEPT !.components = parsed.v]
    IN  StatementOf(frame, frame.components.select)

\* a request thread enters calcite_query
EnterCalciteQuery(t) ==
    /\ threads[t].pc = "idle" /\ threads[t].calls < MaxCalls
    /\ threads' = At(t, "get_jvm")
    /\ UNCHANGED <<config, engine, request, stack, stmts, outcome, jvm, cli>>

\* jvm.rs get_jvm, line 41: jvm.lock().unwrap()
GetJvmLock(t) ==
    /\ threads[t].pc = "get_jvm" /\ jvm.holder = 0
    /\ IF jvm.poisoned
       THEN /\ threads' = Returned(t, Panic("get_jvm: jvm.lock().unwrap()"))
            /\ UNCHANGED jvm
       ELSE /\ jvm' = Acquire(jvm, t)
            /\ threads' = At(t, "no_op")
    /\ UNCHANGED <<config, engine, request, stack, stmts, outcome, cli>>

\* jvm.rs get_jvm, lines 42-51: the no-op call, and the guard dropped at the
\* end of the block
GetJvmUnlock(t) ==
    /\ threads[t].pc = "no_op"
    /\ jvm' = Release(jvm, FALSE)
    /\ threads' = At(t, "lock")
    /\ UNCHANGED <<config, engine, request, stack, stmts, outcome, cli>>

\* calcite.rs calcite_query, line 127: get_jvm().lock().unwrap()
Lock(t) ==
    /\ threads[t].pc = "lock" /\ jvm.holder = 0
    /\ IF jvm.poisoned
       THEN /\ threads' = Returned(t, Panic("calcite_query: get_jvm().lock().unwrap()"))
            /\ UNCHANGED jvm
       ELSE /\ jvm' = Acquire(jvm, t)
            /\ threads' = At(t, "call")
    /\ UNCHANGED <<config, engine, request, stack, stmts, outcome, cli>>

\* calcite.rs calcite_query, lines 133-137: call_method enters the engine
CallMethod(t) ==
    /\ threads[t].pc = "call"
    /\ jvm' = [jvm EXCEPT !.running = @ \cup {t}]
    /\ threads' = At(t, "executing")
    /\ UNCHANGED <<config, engine, request, stack, stmts, outcome, cli>>

\* the engine's query method comes back
MethodReturns(t) ==
    /\ threads[t].pc = "executing"
    /\ \E reply \in Replies(engine, GatewayStatement) :
          threads' = [threads EXCEPT ![t].pc = "read", ![t].reply = Some(reply)]
    /\ jvm' = [jvm EXCEPT !.running = @ \ {t}]
    /\ UNCHANGED <<config, engine, request, stack, stmts, outcome, cli>>

\* calcite.rs calcite_query, lines 139-160: the response is read and the
\* function returns or panics; either way its locals are dropped, the guard
\* among them
ReadResponse(t) ==
    /\ threads[t].pc = "read"
    /\ LET r == calcite_query(config, threads[t].reply.v, request.query)
       IN  /\ jvm' = Release(jvm, r.k = "Panic")
           /\ threads' = Returned(t, r)
    /\ UNCHANGED <<config, engine, request, stack, stmts, outcome, cli>>

GatewayNext ==
    \E t \in Threads :
        \/ EnterCalciteQuery(t)
        \/ GetJvmLock(t)
        \/ GetJvmUnlock(t)
        \/ Lock(t)
        \/ CallMethod(t)
        \/ MethodReturns(t)
        \/ ReadResponse(t)

----------------------------------------------------------------------------
(* cli/src/lib.rs update: the configuration file is read, the engine is     *)
(* introspected, the file is read again and written if it did not change.   *)
(* Whoever else edits the file is the environment.                          *)

UPDATE_ATTEMPTS == 3

\* a configuration: what its author put in, and whether it has the
\* introspected metadata
Configurations == [input : {"a", "b", "c"}, introspected : BOOLEAN]

\* introspect: the configuration with the metadata of the engine
Introspected(configuration) == [configuration EXCEPT !.introspected = TRUE]

NotStarted ==
    [pc |-> "none", attempt |-> 0, file |-> None, existing_configuration |-> None,
     output |-> None, attempts |-> <<>>, writes |-> <<>>, result |-> None]

\* update is called over the file: the loop is entered
Started(file) == [NotStarted EXCEPT !.pc = "parse", !.attempt = 1, !.file = file]

\* a slip in the check: the input read again counts as unchanged
Unchanged(input_again_before_write, existing_configuration) == TRUE

\* lib.rs update, line 178: input_again_before_write == existing_configuration
SameInput(input_again_before_write, existing_configuration) ==
    input_again_before_write = existing_configuration

\* lib.rs update, lines 165-168: parse_configuration and init_jvm
ParseConfiguration ==
    /\ cli.pc = "parse"
    /\ cli' = [cli EXCEPT !.pc = "introspect", !.existing_configuration = cli.file]
    /\ UNCHANGED <<config, engine, request, stack, stmts, outcome, jvm, threads>>

\* lib.rs update, lines 170-171: introspect
Introspect ==
    /\ cli.pc = "introspect"
    /\ cli' = [cli EXCEPT !.pc = "again",
                          !.output = Introspected(cli.existing_configuration)]
    /\ UNCHANGED <<config, engine, request, stack, stmts, outcome, jvm, threads>>

\* lib.rs update, lines 174-186: the file is read again; a changed input
\* ends the attempt, and the last attempt ends the loop with the error
ParseAgain ==
    /\ cli.pc = "again"
    /\ LET same == SameInput(cli.file, cli.existing_configuration)
           tried == [cli EXCEPT !.attempts = Append(@, [existing |-> cli.existing_configuration,
                                                        again |-> cli.file])]
       IN  cli' = IF same THEN [tried EXCEPT !.pc = "write"]
                  ELSE IF cli.attempt < UPDATE_ATTEMPTS
                  THEN [tried EXCEPT !.pc = "parse", !.attempt = @ + 1]
                  ELSE [tried EXCEPT !.pc = "returned",
                          !.result = Err("Cannot override configuration: input changed before write.")]
    /\ UNCHANGED <<config, engine, request, stack, stmts, outcome, jvm, threads>>

\* lib.rs update, lines 181-182: write_parsed_configuration and return Ok(())
WriteParsedConfiguration ==
    /\ cli.pc = "write"
    /\ cli' = [cli EXCEPT !.pc = "returned", !.file = cli.output,
                          !.writes = Append(@, [attempt |-> cli.attempt,
                                                output |-> cli.output]),
                          !.result = Ok(<<>>)]
    /\ UNCHANGED <<config, engine, request, stack, stmts, outcome, jvm, threads>>

\* the `?` of lines 167, 171, 175 and 181: reading, introspecting or writing
\* fails and update returns the error
UpdateFails ==
    /\ cli.pc \in {"parse", "introspect", "again", "write"}
    /\ cli' = [cli EXCEPT !.pc = "returned", !.result = Err(cli.pc)]
    /\ UNCHANGED <<config, engine, request, stack, stmts, outcome, jvm, threads>>

\* somebody else saves another configuration while update runs
EditFile ==
    /\ cli.pc \in {"parse", "introspect", "again", "write"}
    /\ \E configuration \in Configurations \ {cli.file} :
          cli' = [cli EXCEPT !.file = configuration]
    /\ UNCHANGED <<config, engine, request, stack, stmts, outcome, jvm, threads>>

UpdateNext ==
    \/ ParseConfiguration
    \/ Introspect
    \/ ParseAgain
    \/ WriteParsedConfiguration
    \/ UpdateFails
    \/ EditFile

----------------------------------------------------------------------------
(* The inputs: the catalog has orders(id, customer_id) and                  *)
(* customers(id, name); the relationship table of a request maps            *)
(* orders.customer_id to customers.id, as an Object and as an Array         *)
(* relationship, once with a composite key, and customers.id back to        *)
(* orders.customer_id.                                                      *)

Names == <<"Ann", "Bob", "Cy", "Dee", "Eve", "Fay">>
KeyValues == {Num(9), Num(8)}

OrdersTables(keys) ==
    {[i \in 1..Len(c) |-> [id |-> Num(i), customer_id |-> c[i]]] :
        c \in SeqsUpTo(keys, MaxParents)}

CustomersTables ==
    {[i \in 1..Len(c) |-> [id |-> c[i], name |-> Str(Names[i])]] :
        c \in SeqsUpTo(KeyValues, MaxChildren)}

\* orders whose id column is nullable
SparseOrdersTables ==
    {[i \in 1..Len(c) |-> [id |-> c[i], customer_id |-> Num(9)]] :
        c \in SeqsUpTo({Null, Num(1)}, MaxParents)}

Engines(orders, customers, drops) ==
    {[tables |-> [c \in Collections |-> IF c = "orders" THEN o ELSE cu],
      dropNulls |-> d] : o \in orders, cu \in customers, d \in drops}

Configs(fixes) == {[fixes |-> f] : f \in fixes}

CollectionRelationships ==
    [r \in {"customer", "customer_list", "composite", "orders"} |->
       CASE r = "customer" -> Relationship(<<<<"customer_id", "id">>>>, Object, "customers")
         [] r = "customer_list" -> Relationship(<<<<"customer_id", "id">>>>, Array, "customers")
         [] r = "composite" ->
              Relationship(<<<<"customer_id", "id">>, <<"id", "id">>>>, Object, "customers")
         [] OTHER -> Relationship(<<<<"id", "customer_id">>>>, Array, "orders")]

Variables ==
    [v \in {"region", "who", "keys", "none"} |->
        CASE v = "region" -> Num(9)
          [] v = "who" -> Str("Ann")
          [] v = "keys" -> Arr(<<Num(9), Num(8)>>)
          [] OTHER -> Arr(<<>>)]

Requests(queries, arguments) ==
    {[coll |-> "orders", coll_rel |-> CollectionRelationships, args |-> a,
      query |-> q, vars |-> Variables] : q \in queries, a \in arguments}

Column(name) == Entry(name, ColumnField(name))
Count == Entry("count", StarCount)
Total == Entry("total", SingleColumn("customer_id", "sum"))
NoArguments == <<>>
Bound == <<Entry("region", Variable("region"))>>
Unbound == <<Entry("region", Variable("zone"))>>

PageValues == {None} \cup {Some(U32(n)) : n \in 0..MaxPage}

\* requests without relationship fields: fields, aggregates, pagination
FlatQueries ==
    {Query(f, a, l, o, None, None) :
        f \in {None, Some(<<>>), Some(<<Column("id")>>),
               Some(<<Column("id"), Column("customer_id")>>)},
        a \in {None, Some(<<Count>>), Some(<<Count, Total>>)},
        l \in {None, Some(U32(0)), Some(U32(1))},
        o \in {None, Some(U32(1))}}

\* requests without relationship fields: predicate, ordering, arguments
PlanQueries ==
    {Query(Some(<<Column("id")>>), a, None, None, ord, p) :
        a \in {None, Some(<<Count>>)},
        ord \in {None, Some(<<OrderByColumn("id", "desc")>>), Some(<<OrderByStarCount>>)},
        p \in {None, Some(BinaryComparison("customer_id", "_eq", Num(9))),
                Some(BinaryComparison("customer_id", "_in", Arr(<<Num(9), Num(8)>>))),
                Some(BinaryComparison("customer_id", "_in", Arr(<<>>))),
                Some(BinaryComparison("ghost", "_eq", Num(9)))}}

\* requests filtered by a negation, by a variable, or by the existence of a
\* related row
FilterQueries ==
    {Query(Some(<<Column("id")>>), None, None, None, None, Some(p)) :
        p \in {Not(BinaryComparison("customer_id", "_eq", Num(9))),
               Not(Not(BinaryComparison("customer_id", "_eq", Num(9)))),
               Not(BinaryComparison("customer_id", "_like", Str("'"))),
               Exists("customer", NoArguments, None),
               Exists("customer", NoArguments,
                      Some(BinaryComparison("name", "_eq", Str("Ann")))),
               Exists("customer", NoArguments,
                      Some(BinaryComparison("id", "_in", Arr(<<>>)))),
               Exists("customer", <<Entry("limit", Literal(Num(1)))>>,
                      Some(BinaryComparison("id", "_eq", Num(9)))),
               Exists("customer", NoArguments,
                      Some(Exists("orders", NoArguments,
                                  Some(BinaryComparison("id", "_eq", Num(1))))))}
           \cup {BinaryComparison("customer_id", op, v) :
                    op \in {"_eq", "_in"},
                    v \in {VariableValue(n) : n \in DOMAIN Variables \cup {"nobody"}}
                          \cup {Variables[n] : n \in DOMAIN Variables}}}

SubQuery(fields, aggs, limit, offset) == Query(fields, aggs, limit, offset, None, None)

Related(name, relationship, sub, arguments) ==
    Entry(name, RelationshipField(sub, relationship, arguments))

WithRelationship(field) == Query(Some(<<Column("id"), field>>), None, None, None, None, None)

\* one relationship field, its sub-request paginated
StitchQueries ==
    {WithRelationship(Related("customer", "customer",
                              SubQuery(Some(<<Column("name")>>), None, None, None),
                              NoArguments))}
    \cup
    {WithRelationship(Related("customer", "customer_list",
                              SubQuery(Some(<<Column("name")>>), None, l, o),
                              NoArguments)) :
        l \in PageValues \cup {Some(U32_MAX)}, o \in PageValues}

\* one relationship field that cannot be resolved, or whose sub-request
\* brings its own statements
HardQueries ==
    {Query(Some(<<Column("id"), Related("customer", r, s, a)>>), g, None, None, None, None) :
        r \in {"customer", "composite", "ghost"},
        s \in {SubQuery(Some(<<Column("name")>>), None, None, None),
               SubQuery(Some(<<Column("name")>>), Some(<<Count>>), None, None),
               SubQuery(None, Some(<<Count>>), None, None),
               SubQuery(Some(<<Column("name"),
                               Related("orders", "orders",
                                       SubQuery(Some(<<Column("id")>>), None, None, None),
                                       NoArguments)>>), None, None, None)},
        a \in {NoArguments, Unbound},
        g \in {None, Some(<<Count>>)}}

\* two relationship fields, in either order; the field customer_id has the
\* name of the column that the relationships read their key from
TwoQueries ==
    LET plain == SubQuery(Some(<<Column("name")>>), None, None, None)
        choices == {<<"customer", "customer">>, <<"customer_list", "customer_list">>,
                    <<"customer_id", "customer">>}
        pairs == {ab \in choices \X choices : ab[1] # ab[2]}
    IN  {Query(Some(<<Column("id"), Related(ab[1][1], ab[1][2], plain, NoArguments),
                      Related(ab[2][1], ab[2][2], plain, NoArguments)>>),
               None, None, None, None, None) : ab \in pairs}

\* one relationship field whose sub-request names its own fields for the
\* target's columns, and may have a predicate of its own
KeyedQueries ==
    {WithRelationship(Related("customer", r, Query(Some(f), None, None, None, None, p),
                              NoArguments)) :
        r \in {"customer", "customer_list"},
        f \in {<<Column("name")>>, <<Column("id"), Column("name")>>,
                <<Entry("key", ColumnField("id")), Column("name")>>},
        p \in {None, Some(BinaryComparison("name", "_eq", Str("Ann")))}}

\* orchestrate_query is entered with the request's collection, arguments and query
Start(configs, engines, requests) ==
    \E c \in configs, e \in engines, r \in requests :
        /\ config = c
        /\ engine = e
        /\ request = r
        /\ stack = <<Frame(r.coll, r.args, r.query)>>
        /\ stmts = <<>>
        /\ outcome = None
        /\ jvm = Unlocked
        /\ threads = [t \in Threads |-> Thread]
        /\ cli = NotStarted

Unpaginated(q) ==
    LET sub == q.fields.v[2].val.query
    IN  sub.limit = None /\ sub.offset = None

Init ==
    \/ Start(Configs(BOOLEAN),
             Engines(OrdersTables(KeyValues \cup {Null}), {<<>>}, BOOLEAN),
             Requests(FlatQueries, {NoArguments}))
    \/ Start(Configs({TRUE}),
             Engines(OrdersTables(KeyValues \cup {Null}), {<<>>}, {FALSE}),
             Requests(PlanQueries, {NoArguments, Bound, Unbound}))
    \/ Start(Configs(BOOLEAN),
             Engines(OrdersTables(KeyValues), CustomersTables, {FALSE}),
             Requests(StitchQueries, {NoArguments}))
    \/ Start(Configs(BOOLEAN),
             Engines(OrdersTables(KeyValues \cup {Null}), CustomersTables, {TRUE}),
             Requests({q \in StitchQueries : Unpaginated(q)}, {NoArguments}))
    \/ Start(Configs({TRUE}),
             Engines(OrdersTables({Num(9)}), {t \in CustomersTables : Len(t) <= 1}, {FALSE}),
             Requests(HardQueries, {NoArguments}))
    \/ Start(Configs({TRUE}),
             Engines(OrdersTables(KeyValues), {t \in CustomersTables : Len(t) <= 2}, {FALSE}),
             Requests(TwoQueries, {NoArguments}))
    \/ Start(Configs({TRUE}),
             Engines(OrdersTables(KeyValues), CustomersTables, {FALSE}),
             Requests(KeyedQueries, {NoArguments}))
    \/ Start(Configs({TRUE}),
             Engines(OrdersTables(KeyValues), {t \in CustomersTables : Len(t) <= 2}, {FALSE}),
             Requests(FilterQueries, {NoArguments}))
    \/ Start(Configs(BOOLEAN),
             Engines(SparseOrdersTables, {t \in CustomersTables : Len(t) <= 1}, {TRUE}),
             Requests({q \in StitchQueries : Unpaginated(q)} \cup {Query(Some(<<Column("id"), Column("customer_id")>>), None, None, None, None, None)},
                      {NoArguments}))

Spec == Init /\ [][Next]_vars

\* the gateway under concurrent requests: one configuration, one engine,
\* one request, and every thread about to call calcite_query
GatewayInit ==
    /\ config \in Configs({TRUE})
    /\ engine \in Engines({t \in OrdersTables({Num(9)}) : Len(t) = 1}, {<<>>}, {FALSE})
    /\ request \in Requests({Query(Some(<<Column("id")>>), None, None, None, None, None)},
                            {NoArguments})
    /\ stack = <<>>
    /\ stmts = <<>>
    /\ outcome = None
    /\ jvm = Unlocked
    /\ threads = [t \in Threads |-> Thread]
    /\ cli = NotStarted

Gateway == GatewayInit /\ [][GatewayNext]_vars

\* the CLI update command over a directory that has a configuration file
\* (lib.rs line 158), which others may edit
UpdateInit ==
    /\ config \in Configs({TRUE})
    /\ engine \in Engines({<<>>}, {<<>>}, {FALSE})
    /\ request \in Requests({Query(Some(<<Column("id")>>), None, None, None, None, None)},
                            {NoArguments})
    /\ stack = <<>>
    /\ stmts = <<>>
    /\ outcome = None
    /\ jvm = Unlocked
    /\ threads = [t \in Threads |-> Thread]
    /\ \E file \in Configurations : cli = Started(file)

Update == UpdateInit /\ [][UpdateNext]_vars

----------------------------------------------------------------------------
(* Vocabulary of the properties                                             *)

Finished == stack = <<>>
Answered == outcome.k = "Ok"

RootFields == UnwrapOrDefault(request.query.fields)
RootAggregates == UnwrapOrDefault(request.query.aggregates)
RelationshipFields(fields) == {i \in 1..Len(fields) : fields[i].val.t = "Relationship"}
NoRelationshipFields == RelationshipFields(RootFields) = {}

\* the children held by a stitched relationship value, none when rows is null
Kids(value) == IF value.o.rows = Null THEN <<>> ELSE value.o.rows.a

\* a step of StitchRelationship, of the given cardinality, that succeeded or not
Stitching(relationship_type) ==
    /\ Len(stack) > 1 /\ Top.pc = "fields"
    /\ stack[Len(stack) - 1].pending.v.relationship_type = relationship_type
    /\ (stack' = <<>> \/ Len(stack') = Len(stack) - 1)
Stitched(relationship_type) ==
    Stitching(relationship_type) /\ Len(stack') = Len(stack) - 1

Caller == stack[Len(stack) - 1]
Fetched == Top.rows_data.v
Before(i) == Caller.rows_data.v[i]
After(i) == stack'[Len(stack')].rows_data.v[i]
Parents == 1..Len(Caller.rows_data.v)
\* the indices in the fetched child rows of the children of parent row i
MatchesOf(i) ==
    LET p == Caller.pending.v
    IN  {j \in 1..Len(Fetched) :
           /\ p.pks[1][1] \in DOMAIN Fetched[j]
           /\ p.fks[1] \in DOMAIN Before(i)
           /\ Fetched[j][p.pks[1][1]] = Before(i)[p.fks[1]]}
\* the k-th smallest element of a set of indices
RECURSIVE Nth(_, _)
Nth(S, k) ==
    LET m == CHOOSE x \in S : \A y \in S : x <= y
    IN  IF k = 1 THEN m ELSE Nth(S \ {m}, k - 1)

----------------------------------------------------------------------------
(* C1 *)

ScenarioQuery ==
    WithRelationship(Related("customer", "customer",
                             SubQuery(Some(<<Column("name")>>), None, None, None),
                             NoArguments))
ScenarioOrders ==
    <<[id |-> Num(1), customer_id |-> Num(9)], [id |-> Num(2), customer_id |-> Num(9)]>>
ScenarioCustomers == <<[id |-> Num(9), name |-> Str("Ann")]>>
InScenario ==
    /\ request.query = ScenarioQuery
    /\ engine.tables["orders"] = ScenarioOrders
    /\ engine.tables["customers"] = ScenarioCustomers
ScenarioAnn == Obj([aggregates |-> Null, rows |-> Arr(<<[name |-> Str("Ann")]>>)])

\* C1: in the scenario of orders 1 and 2 of customer 9 ("Ann"), requested
\* with fields id and customer{name}, orchestrate_query returns exactly the
\* rows {id:1, customer:{rows:[{name:"Ann"}], aggregates:null}} and
\* {id:2, customer:{rows:[{name:"Ann"}], aggregates:null}}, with no other key
\* in a parent row or in a child row.
C1_ScenarioRows ==
    (InScenario /\ Answered) =>
        outcome.v.rows = Some(<<[id |-> Num(1), customer |-> ScenarioAnn],
                                [id |-> Num(2), customer |-> ScenarioAnn]>>)

\* what the code returns in the scenario: the key column customer_id is in
\* every parent row and, as the alias of customers.id, in every child row
C1_ScenarioReturned ==
    /\ InScenario /\ Answered
    /\ LET kid == [name |-> Str("Ann"), customer_id |-> Num(9)]
           ann == Obj([aggregates |-> Null, rows |-> Arr(<<kid>>)])
       IN  outcome.v.rows =
              Some(<<[id |-> Num(1), customer |-> ann, customer_id |-> Num(9)],
                     [id |-> Num(2), customer |-> ann, customer_id |-> Num(9)]>>)

----------------------------------------------------------------------------
(* C2 *)

\* C2: after shape normalization (fixes enabled) every row returned for a
\* request whose requested field set is F has exactly the key set F.
C2_ExactKeys ==
    (Answered /\ config.fixes /\ IsSome(outcome.v.rows)) =>
        \A i \in 1..Len(outcome.v.rows.v) :
            DOMAIN outcome.v.rows.v[i] = Keys(RootFields)

----------------------------------------------------------------------------
(* C3 *)

\* C3: stitching an Object relationship leaves every parent row with at most
\* one child row, the first of its matches in the order the engine returned
\* them; when the stitching fails, it is for a parent row without the key
\* column, never for the duplicates.
C3_ObjectKeepsFirst ==
    [][/\ Stitched(Object) =>
            \A i \in Parents :
               LET field == Caller.pending.v.field_name
                   kids == Kids(After(i)[field])
               IN  /\ Len(kids) <= 1
                   /\ MatchesOf(i) # {} =>
                         kids = <<Fetched[Nth(MatchesOf(i), 1)]>>
                   /\ MatchesOf(i) = {} => kids = <<>>
       /\ (Stitching(Object) /\ stack' = <<>>) =>
            \E i \in Parents : Caller.pending.v.fks[1] \notin DOMAIN Before(i)
      ]_vars

\* an Object relationship was stitched onto a parent whose key two stored
\* customers share, and the parent holds one child
C3_DuplicatesTruncated ==
    /\ Answered /\ IsSome(outcome.v.rows)
    /\ Len(RootFields) = 2 /\ RootFields[2].val.t = "Relationship"
    /\ RootFields[2].val.relationship = "customer"
    /\ \E i \in 1..Len(outcome.v.rows.v) :
          LET row == outcome.v.rows.v[i]
          IN  /\ "customer_id" \in DOMAIN row
              /\ Cardinality({j \in 1..Len(engine.tables["customers"]) :
                     engine.tables["customers"][j]["id"] = row["customer_id"]}) >= 2
              /\ Len(Kids(row["customer"])) = 1

----------------------------------------------------------------------------
(* C4 *)

PageLimit == IF IsSome(Caller.pending.v.query.limit)
             THEN Caller.pending.v.query.limit.v ELSE U32(0)
PageOffset == IF IsSome(Caller.pending.v.query.offset)
              THEN Caller.pending.v.query.offset.v ELSE U32(0)
HasKey(i) == Caller.pending.v.fks[1] \in DOMAIN Before(i)
\* parent row i has at least O matching children
Reaches(i) == HasKey(i) /\ ~U32Gt(PageOffset, Cardinality(MatchesOf(i)))
\* min(O + L, n) over the naturals
PageEnd(n) == IF PageLimit.hi > 0 \/ PageOffset.lo + PageLimit.lo > n
              THEN n ELSE PageOffset.lo + PageLimit.lo
\* the children of parent row i at positions O .. min(O + L, n) - 1
PageOf(i) ==
    LET n == Cardinality(MatchesOf(i))
    IN  [k \in 1..(PageEnd(n) - PageOffset.lo) |->
            Fetched[Nth(MatchesOf(i), PageOffset.lo + k)]]
HoldsPage(i) == Kids(After(i)[Caller.pending.v.field_name]) = PageOf(i)

\* C4: stitching an Array relationship whose sub-request has limit L >= 1
\* and offset O gives every parent row with n >= O matching children exactly
\* its own matches at positions O .. min(O + L, n) - 1.
C4_ArrayPage ==
    [][(Stitching(Array) /\ ~U32IsZero(PageLimit)) =>
          /\ (\A i \in Parents : Reaches(i)) => Len(stack') = Len(stack) - 1
          /\ Len(stack') = Len(stack) - 1 =>
                \A i \in Parents : Reaches(i) => HoldsPage(i)
      ]_vars

\* the same where O + L fits 32 bits
C4_ArrayPageWithoutOverflow ==
    [][(Stitching(Array) /\ ~U32IsZero(PageLimit)
            /\ ~U32Add(PageOffset, PageLimit).overflow) =>
          /\ (\A i \in Parents : Reaches(i)) => Len(stack') = Len(stack) - 1
          /\ Len(stack') = Len(stack) - 1 =>
                \A i \in Parents : Reaches(i) => HoldsPage(i)
      ]_vars

\* limit u32::MAX with an offset of at least 1 made the stitching panic
C4_OverflowPanicked ==
    /\ Finished /\ outcome.k = "Panic"
    /\ outcome.at \in {"process_array_relationship: attempt to add with overflow",
                       "process_array_relationship: slice index starts past its end"}
    /\ LET sub == RootFields[2].val.query
       IN  /\ sub.limit = Some(U32_MAX)
           /\ IsSome(sub.offset) /\ sub.offset.v.lo >= 1
           /\ Len(engine.tables["customers"]) >= sub.offset.v.lo
           /\ \A j \in 1..Len(engine.tables["customers"]) :
                 engine.tables["customers"][j]["id"] = Num(9)
           /\ \A j \in 1..Len(engine.tables["orders"]) :
                 engine.tables["orders"][j]["customer_id"] = Num(9)

----------------------------------------------------------------------------
(* C5 *)

NoChildren(rows) == Obj([aggregates |-> Null, rows |-> rows])

\* C5: when no fetched child row matches a parent row, the relationship
\* field is present on that row and holds a row set whose rows entry is an
\* empty list and whose aggregates entry is null.
C5_EmptyList ==
    [][\A t \in {Object, Array} : Stitched(t) =>
          \A i \in Parents : MatchesOf(i) = {} =>
             LET field == Caller.pending.v.field_name
             IN  /\ field \in DOMAIN After(i)
                 /\ After(i)[field] = NoChildren(Arr(<<>>))
      ]_vars

\* C5, amended: when no fetched child row matches a parent row, the
\* relationship field is present on that row and holds a row set whose rows
\* entry is null and whose aggregates entry is null.
C5_NullRows ==
    [][\A t \in {Object, Array} : Stitched(t) =>
          \A i \in Parents : MatchesOf(i) = {} =>
             LET field == Caller.pending.v.field_name
             IN  /\ field \in DOMAIN After(i)
                 /\ After(i)[field] = NoChildren(Null)
      ]_vars

\* a parent row whose key no stored customer has was returned with the field
C5_ChildlessParent ==
    /\ Answered /\ IsSome(outcome.v.rows)
    /\ Len(RootFields) = 2 /\ RootFields[2].val.t = "Relationship"
    /\ \E i \in 1..Len(outcome.v.rows.v) :
          LET row == outcome.v.rows.v[i]
          IN  /\ "customer_id" \in DOMAIN row
              /\ \A j \in 1..Len(engine.tables["customers"]) :
                     engine.tables["customers"][j]["id"] # row["customer_id"]
              /\ row["customer"] = NoChildren(Null)


----------------------------------------------------------------------------
(* C6 *)

CompositeMessage == "Cannot create a sub-query based on a composite key"

\* the relationship field the loop of the top activation comes to next
NextField ==
    LET fields == UnwrapOrDefault(Top.query.fields)
    IN  fields[NextRelationship(fields, Top.idx)].val
AtRelationship ==
    /\ Running /\ Top.pc = "fields" /\ IsSome(Top.rows_data)
    /\ LET fields == UnwrapOrDefault(Top.query.fields)
       IN  NextRelationship(fields, Top.idx) <= Len(fields)
AtComposite ==
    /\ AtRelationship
    /\ NextField.relationship \in DOMAIN request.coll_rel
    /\ Len(request.coll_rel[NextField.relationship].column_mapping) >= 2
CompositeRequested ==
    \E i \in RelationshipFields(RootFields) :
        /\ RootFields[i].val.relationship \in DOMAIN request.coll_rel
        /\ Len(request.coll_rel[RootFields[i].val.relationship].column_mapping) >= 2

\* C6: resolving a relationship whose column mapping has two or more pairs
\* ends orchestrate_query with an Err and submits no statement; a request
\* with such a relationship field is never answered with a row set and never
\* has a statement submitted for the relationship's collection.
C6_CompositeRejected ==
    /\ [](CompositeRequested =>
            /\ ~Answered
            /\ \A i \in DOMAIN stmts : stmts[i].depth = 1)
    /\ [][AtComposite =>
            /\ outcome'.k = "Err" /\ outcome'.e.message = CompositeMessage
            /\ stack' = <<>>
            /\ stmts' = stmts]_vars

\* the parent rows were fetched and the composite relationship was refused
C6_CompositeRefused ==
    /\ Finished /\ CompositeRequested
    /\ outcome.k = "Err" /\ outcome.e.message = CompositeMessage
    /\ Len(stmts) = 1 /\ stmts[1].result = "Ok"

----------------------------------------------------------------------------
(* C7 *)

\* C7: when the execution of a statement fails, orchestrate_query returns
\* the failure as an Err and no row set.
C7_FailureReturned ==
    \A i \in DOMAIN stmts : stmts[i].result = "Err" => outcome.k = "Err"

\* the aggregate statement failed and orchestrate_query did not return
C7_AggregateFailurePanicked ==
    /\ Finished /\ stmts # <<>>
    /\ stmts[Len(stmts)].phrase = "aggregates" /\ stmts[Len(stmts)].result = "Err"
    /\ outcome = Panic("process_aggregates: todo!()")

----------------------------------------------------------------------------
(* C8 *)

ResolutionError ==
    \/ outcome.k = "Err" /\ outcome.e.message \in {"Variable not found", CompositeMessage}
    \/ outcome = Panic("orchestrate_query: coll_rel.get(relationship).unwrap()")

\* C8: a resolution error (an unknown variable, a composite key mapping, a
\* relationship name missing from the relationship table) is raised before
\* any statement is submitted.
C8_ResolvedBeforeExecution == ResolutionError => stmts = <<>>

\* each kind of resolution error, raised after a statement was executed
C8_RaisedAfterExecution ==
    /\ ResolutionError /\ stmts # <<>>
    /\ \A i \in DOMAIN stmts : stmts[i].result = "Ok"

----------------------------------------------------------------------------
(* C9 *)

\* the first row the engine returned for the aggregate statement, if any
EngineAggregates ==
    LET i == CHOOSE i \in DOMAIN stmts : stmts[i].depth = 1 /\ stmts[i].phrase = "aggregates"
        rows == EngineRows(engine, stmts[i].statement)
    IN  IF rows = <<>> THEN EmptyRow ELSE rows[1]

\* C9: the aggregate map returned for a request with aggregates contains
\* every requested name, and a name the engine's first result row does not
\* carry has the value 0.
C9_DefaultZero ==
    (Answered /\ RootAggregates # <<>>) =>
        /\ IsSome(outcome.v.aggregates)
        /\ \A i \in DOMAIN RootAggregates :
              LET name == RootAggregates[i].name
              IN  /\ name \in DOMAIN outcome.v.aggregates.v
                  /\ name \notin DOMAIN EngineAggregates =>
                        outcome.v.aggregates.v[name] = Num(0)

\* a sum the engine left out of its row came back as null
C9_NullReturned ==
    /\ Answered /\ RootAggregates # <<>> /\ config.fixes
    /\ "total" \notin DOMAIN EngineAggregates
    /\ "total" \in DOMAIN outcome.v.aggregates.v
    /\ outcome.v.aggregates.v["total"] = Null

----------------------------------------------------------------------------
(* C10 *)

Statements(phrase) == {i \in DOMAIN stmts : stmts[i].phrase = phrase}

\* C10: a request with no relationship fields submits exactly one statement.
C10_OneStatement == (Finished /\ NoRelationshipFields) => Len(stmts) = 1

\* C10, amended: a request with no relationship fields submits at most one
\* row statement, and only when its field list is not empty, and at most one
\* aggregate statement, and only when its aggregate map is not empty; when it
\* is answered with a row set it has submitted each of the two that applies.
C10_OneStatementPerPhrase ==
    NoRelationshipFields =>
        /\ \A i \in DOMAIN stmts : stmts[i].depth = 1
        /\ Cardinality(Statements("select")) <= (IF RootFields = <<>> THEN 0 ELSE 1)
        /\ Cardinality(Statements("aggregates")) <= (IF RootAggregates = <<>> THEN 0 ELSE 1)
        /\ Answered =>
              /\ Cardinality(Statements("select")) = (IF RootFields = <<>> THEN 0 ELSE 1)
              /\ Cardinality(Statements("aggregates")) = (IF RootAggregates = <<>> THEN 0 ELSE 1)
              /\ Len(stmts) = Cardinality(Statements("select"))
                                + Cardinality(Statements("aggregates"))

\* fields and aggregates were both requested and two statements ran
C10_TwoStatements ==
    /\ Answered /\ NoRelationshipFields
    /\ RootFields # <<>> /\ RootAggregates # <<>>
    /\ Len(stmts) = 2 /\ stmts[1].phrase = "select" /\ stmts[2].phrase = "aggregates"
    /\ IsSome(request.query.order_by) /\ IsSome(request.query.predicate)


----------------------------------------------------------------------------
(* C11 *)

StatementsAt(depth) == {i \in DOMAIN stmts : stmts[i].depth = depth}
RelationshipCount == Cardinality(RelationshipFields(RootFields))

\* C11: a request with k relationship fields at depth 1 submits at least
\* k + 1 statements: one base statement and at least one per relationship
\* field.
C11_StatementPerRelationship ==
    (Finished /\ RelationshipCount >= 1) =>
        /\ Cardinality(StatementsAt(1)) >= 1
        /\ Cardinality(StatementsAt(2)) >= RelationshipCount
        /\ Len(stmts) >= RelationshipCount + 1

\* C11, amended: a request with k relationship fields at depth 1 that
\* orchestrate_query answers with a row set has submitted at least k + 1
\* statements: one base statement and at least one per relationship field,
\* also when the base statement returned no row.
C11_StatementPerRelationshipAnswered ==
    (Answered /\ RelationshipCount >= 1) =>
        /\ Cardinality(StatementsAt(1)) >= 1
        /\ Cardinality(StatementsAt(2)) >= RelationshipCount
        /\ Len(stmts) >= RelationshipCount + 1

\* two relationship fields over a base statement that returned no row
C11_ThreeStatementsNoParent ==
    /\ Answered /\ RelationshipCount = 2
    /\ engine.tables["orders"] = <<>>
    /\ outcome.v.rows = Some(<<>>)
    /\ Len(stmts) = 3 /\ stmts[1].depth = 1 /\ stmts[2].depth = 2 /\ stmts[3].depth = 2


----------------------------------------------------------------------------
(* C13 *)

EmptyIn(predicate) ==
    /\ IsSome(predicate)
    /\ predicate.v.t = "BinaryComparisonOperator"
    /\ predicate.v.operator = "_in"
    /\ predicate.v.value = Arr(<<>>)

\* '<column> IN (SELECT <column> FROM <collection> WHERE FALSE)'
AlwaysFalse(column, collection) ==
    <<"\"", column, "\"", "IN", "(", "SELECT", "\"", column, "\"", "FROM",
      "\"", collection, "\"", "WHERE", "FALSE", ")">>

HasEmptyList(text) ==
    \E j \in 1..(Len(text) - 2) :
        text[j] = "IN" /\ text[j + 1] = "(" /\ text[j + 2] = ")"

\* C13: a comparison with operator _in and an empty literal array compiles
\* to '<column> IN (SELECT <column> FROM <collection> WHERE FALSE)', and no
\* statement carries the text 'IN ()'.
C13_EmptyInAlwaysFalse ==
    /\ \A d \in DOMAIN stack :
          (stack[d].pc # "parse" /\ EmptyIn(stack[d].query.predicate)) =>
              stack[d].components.predicates =
                  AlwaysFalse(stack[d].query.predicate.v.column, stack[d].coll)
    /\ \A i \in DOMAIN stmts : ~HasEmptyList(stmts[i].statement.where)

\* a request filtered by an empty list was executed over a table with rows
\* and answered with none of them
C13_EmptyInExecuted ==
    /\ Answered /\ EmptyIn(request.query.predicate)
    /\ engine.tables["orders"] # <<>>
    /\ stmts # <<>> /\ stmts[1].result = "Ok"
    /\ stmts[1].statement.where = AlwaysFalse("customer_id", "orders")
    /\ outcome.v.rows = Some(<<>>)


----------------------------------------------------------------------------
(* C14 *)

Unresolved(predicate, collection) ==
    /\ IsSome(predicate)
    /\ predicate.v.t = "BinaryComparisonOperator"
    /\ predicate.v.column \notin Metadata[collection].columns

Mentions(text, column) ==
    \E j \in 1..(Len(text) - 2) :
        text[j] = "\"" /\ text[j + 1] = column /\ text[j + 2] = "\""

\* C14: a predicate that references a column which is not in the Catalog's
\* column list of the collection makes compilation fail: orchestrate_query
\* returns an error and no statement with the column is produced or executed.
C14_UnresolvedColumnRejected ==
    Unresolved(request.query.predicate, request.coll) =>
        /\ stmts = <<>>
        /\ \A d \in DOMAIN stack : stack[d].pc = "parse"
        /\ Finished => outcome.k = "Err"

\* the statement with the unknown column reached the engine
C14_UnresolvedColumnExecuted ==
    /\ Unresolved(request.query.predicate, request.coll)
    /\ stmts # <<>>
    /\ Mentions(stmts[1].statement.where, request.query.predicate.v.column)
    /\ stmts[1].result # "Ok"


----------------------------------------------------------------------------
(* C15 *)

SelectsPlaceholder(statement) == statement.select = <<PlaceholderItem("CONSTANT")>>

\* C15: for a request with no requested fields, a statement selecting a
\* constant placeholder column is still submitted, and the request is
\* answered with the rows of the collection.
C15_PlaceholderSubmitted ==
    (Answered /\ RootFields = <<>>) =>
        /\ \E i \in DOMAIN stmts :
              /\ stmts[i].phrase = "select"
              /\ SelectsPlaceholder(stmts[i].statement)
        /\ IsSome(outcome.v.rows)

\* no statement was submitted and the answer has no rows entry, over a table
\* that has rows
C15_NothingSubmitted ==
    /\ Answered /\ RootFields = <<>> /\ RootAggregates = <<>>
    /\ engine.tables["orders"] # <<>>
    /\ stmts = <<>>
    /\ outcome.v.rows = None


----------------------------------------------------------------------------
(* C16 *)

RowsBefore == Caller.rows_data.v
RowsAfter == stack'[Len(stack')].rows_data.v

\* the other relationship fields of the query that is being stitched
OtherRelationships ==
    LET fields == UnwrapOrDefault(Caller.query.fields)
    IN  {g \in RelationshipFields(fields) :
            /\ fields[g].name # Caller.pending.v.field_name
            /\ fields[g].val.relationship \in DOMAIN request.coll_rel}

\* C16: resolving one relationship field changes only that field of each
\* parent row, and changes nothing that the resolution of another
\* relationship field reads (the key values of the parent rows), so that the
\* final rows do not depend on the order of the relationship fields.
C16_DisjointFields ==
    [][\A t \in {Object, Array} : Stitched(t) =>
          /\ \A i \in Parents :
                /\ DOMAIN After(i) = DOMAIN Before(i)
                /\ \A key \in DOMAIN Before(i) \ {Caller.pending.v.field_name} :
                      After(i)[key] = Before(i)[key]
          /\ \A g \in OtherRelationships :
                LET relationship ==
                        request.coll_rel[UnwrapOrDefault(Caller.query.fields)[g].val.relationship]
                IN  generate_value_from_rows(RowsAfter, relationship)
                        = generate_value_from_rows(RowsBefore, relationship)
      ]_vars

\* the child statement of the second relationship field was built from the
\* row set that the first one had written over the key column
C16_KeyOverwritten ==
    /\ Len(stmts) = 3 /\ stmts[3].depth = 2
    /\ RelationshipCount = 2 /\ RootFields[2].name = "customer_id"
    /\ engine.tables["orders"] # <<>>
    /\ \E j \in DOMAIN stmts[3].statement.where : stmts[3].statement.where[j] = "{"


----------------------------------------------------------------------------
(* C17 *)

\* the field name under which the matching step reads a child's key
MatchKey == Caller.pending.v.pks[1][1]

\* C17: each child row fetched by the revised child query carries the key
\* value under the field name that the matching step reads, and so is
\* matched with the parent rows that have its key value.
C17_ChildrenCarryKey ==
    [][\A t \in {Object, Array} : Stitching(t) =>
          \A j \in 1..Len(Fetched) :
             /\ MatchKey \in DOMAIN Fetched[j]
             /\ \E i \in Parents : j \in MatchesOf(i)
      ]_vars

\* the sub-request selects the target key as its field id: the stored
\* customer of an order was fetched and not attached to it
C17_ChildNotAttached ==
    /\ Answered /\ RelationshipCount = 1
    /\ ContainsKey(RootFields[2].val.query.fields.v, "id")
    /\ RootFields[2].val.query.predicate = None
    /\ Len(stmts) = 2 /\ stmts[2].depth = 2
    /\ EngineRows(engine, stmts[2].statement) # <<>>
    /\ \A i \in 1..Len(outcome.v.rows.v) :
          outcome.v.rows.v[i]["customer"] = NoChildren(Null)


----------------------------------------------------------------------------
(* C18 *)

\* the sub-request's own predicate, a comparison with _eq, on a child row
Satisfies(row, predicate) ==
    /\ predicate.v.column \in DOMAIN row
    /\ row[predicate.v.column] = predicate.v.value

\* the target column that the synthesized predicate of activation d compares
MatchKeyTarget(d) == stack[d - 1].pending.v.pks[1][2]

\* C18: the predicate of the revised child query is the conjunction of the
\* sub-request's own predicate and the synthesized IN predicate: its text has
\* the own predicate's comparison, and a child row that the own predicate
\* excludes is never attached to a parent.
C18_OwnPredicateKept ==
    /\ [](\A d \in 2..Len(stack) :
            LET own == stack[d - 1].pending.v.query.predicate
            IN  (IsSome(own) /\ stack[d].pc # "parse") =>
                    /\ Mentions(stack[d].components.predicates, own.v.column)
                    /\ Mentions(stack[d].components.predicates, MatchKeyTarget(d)))
    /\ [][\A t \in {Object, Array} :
            (Stitched(t) /\ IsSome(Caller.pending.v.query.predicate)) =>
                \A i \in Parents :
                    LET kids == Kids(After(i)[Caller.pending.v.field_name])
                    IN  \A j \in 1..Len(kids) :
                            Satisfies(kids[j], Caller.pending.v.query.predicate)
         ]_vars

\* a customer that the sub-request's predicate name = "Ann" excludes was
\* attached to an order
C18_ExcludedChildAttached ==
    /\ Answered /\ RelationshipCount = 1
    /\ RootFields[2].val.query.predicate = Some(BinaryComparison("name", "_eq", Str("Ann")))
    /\ \E i \in 1..Len(outcome.v.rows.v) :
          LET kids == Kids(outcome.v.rows.v[i]["customer"])
          IN  \E j \in 1..Len(kids) : kids[j]["name"] = Str("Bob")


----------------------------------------------------------------------------
(* C19 *)

\* parent row i has fewer matching children than the offset
Beyond(i) == HasKey(i) /\ U32Gt(PageOffset, Cardinality(MatchesOf(i)))

\* C19: stitching an Array relationship whose sub-request has limit L >= 1
\* and an offset greater than the number of children matching a parent row
\* succeeds, and that parent's relationship field holds no child.
C19_OffsetBeyondChildren ==
    [][(Stitching(Array) /\ ~U32IsZero(PageLimit)
            /\ ~U32Add(PageOffset, PageLimit).overflow
            /\ \E i \in Parents : Beyond(i)) =>
          /\ Len(stack') = Len(stack) - 1
          /\ \A i \in Parents :
                Beyond(i) => Kids(After(i)[Caller.pending.v.field_name]) = <<>>
      ]_vars

\* a limit of 1 or 2 and an offset of 2 over one matching customer made the
\* stitching panic
C19_SlicePanicked ==
    /\ Finished /\ outcome.k = "Panic"
    /\ outcome.at = "process_array_relationship: slice index starts past its end"
    /\ LET sub == RootFields[2].val.query
       IN  /\ IsSome(sub.limit) /\ sub.limit.v.hi = 0 /\ sub.limit.v.lo >= 1
           /\ sub.offset = Some(U32(2))
           /\ Len(engine.tables["customers"]) = 1
           /\ engine.tables["customers"][1]["id"] = Num(9)
           /\ \A j \in 1..Len(engine.tables["orders"]) :
                 engine.tables["orders"][j]["customer_id"] = Num(9)

----------------------------------------------------------------------------
(* C20 *)

\* the children of parent row i with the first O of them skipped
SkipOf(i) ==
    LET n == Cardinality(MatchesOf(i))
    IN  [k \in 1..(n - PageOffset.lo) |->
            Fetched[Nth(MatchesOf(i), PageOffset.lo + k)]]

\* C20: stitching an Array relationship whose sub-request has an offset
\* O >= 1 and no limit gives every parent row its matching children with the
\* first O of them skipped.
C20_OffsetWithoutLimit ==
    [][(Stitched(Array) /\ Caller.pending.v.query.limit = None
            /\ ~U32IsZero(PageOffset)) =>
          \A i \in Parents :
             HasKey(i) => Kids(After(i)[Caller.pending.v.field_name]) = SkipOf(i)
      ]_vars

\* a sub-request with offset 1 or 2 and no limit was answered with every
\* matching customer of an order
C20_NothingSkipped ==
    /\ Answered /\ RelationshipCount = 1
    /\ LET sub == RootFields[2].val.query
       IN  /\ sub.limit = None
           /\ IsSome(sub.offset) /\ sub.offset.v.lo >= 1
           /\ RootFields[2].val.relationship = "customer_list"
    /\ \E i \in 1..Len(outcome.v.rows.v) :
          /\ Len(Kids(outcome.v.rows.v[i]["customer"])) >= 1
          /\ Len(Kids(outcome.v.rows.v[i]["customer"])) =
                Cardinality({j \in 1..Len(engine.tables["customers"]) :
                    engine.tables["customers"][j]["id"] =
                        engine.tables["orders"][i]["customer_id"]})


----------------------------------------------------------------------------
(* C21 *)

\* the requested field names of activation d
FieldNames(d) ==
    LET fields == UnwrapOrDefault(stack[d].query.fields)
    IN  {fields[k].name : k \in 1..Len(fields)}
\* the requested aggregate names of activation d
AggregateNames(d) ==
    LET aggs == UnwrapOrDefault(stack[d].query.aggregates)
    IN  {aggs[k].name : k \in 1..Len(aggs)}

\* C21: with fixes enabled, every row that calcite_query returned for the row
\* statement has every requested field name, and the aggregate row has every
\* requested aggregate name, whatever other columns the engine row has and
\* however many keys it has.
C21_RequestedNamesPresent ==
    config.fixes =>
        \A d \in 1..Len(stack) :
            /\ IsSome(stack[d].rows_data) =>
                  \A i \in 1..Len(stack[d].rows_data.v) :
                     FieldNames(d) \subseteq DOMAIN stack[d].rows_data.v[i]
            /\ (stack[d].pc \in {"fields", "await"} /\ IsSome(stack[d].parsed_aggregates)) =>
                  AggregateNames(d) \subseteq DOMAIN stack[d].parsed_aggregates.v

\* with fixes enabled, an order whose id is null was answered without the
\* field id: the engine left id out and the row has the key column in its place
C21_FieldNotBackfilled ==
    /\ config.fixes /\ engine.dropNulls
    /\ Answered /\ RelationshipCount = 1
    /\ \E i \in 1..Len(outcome.v.rows.v) :
          /\ engine.tables["orders"][i]["id"] = Null
          /\ "id" \notin DOMAIN outcome.v.rows.v[i]
          /\ "customer_id" \in DOMAIN outcome.v.rows.v[i]


----------------------------------------------------------------------------
(* C22 *)

\* the activations whose query has been compiled and has a predicate of kind t
Compiled(t) ==
    {d \in DOMAIN stack :
        /\ stack[d].pc # "parse"
        /\ IsSome(stack[d].query.predicate)
        /\ stack[d].query.predicate.v.t = t}

\* what the expression compiles to on its own, in the scope of the collection
OnItsOwn(expr, collection) ==
    process_sql_expression(collection, request.coll_rel, request.vars, expr).v

\* C22: Not(e) compiles to the text '(NOT ' followed by exactly the text
\* that e compiles to on its own, followed by ')'.
C22_NotWraps ==
    \A d \in Compiled("Not") :
        stack[d].components.predicates =
            <<"(", "NOT">> \o OnItsOwn(stack[d].query.predicate.v.expression, stack[d].coll)
                \o <<")">>

\* a negated comparison reached the engine as '(NOT Ok("...'
C22_DebugTextSubmitted ==
    /\ IsSome(request.query.predicate) /\ request.query.predicate.v.t = "Not"
    /\ stmts # <<>>
    /\ SubSeq(stmts[1].statement.where, 1, 5) = <<"(", "NOT", "Ok", "(", "\"">>
    /\ stmts[1].result # "Ok"

----------------------------------------------------------------------------
(* C23 *)

\* the text of an Exists whose nested predicate is compiled in the scope
\* of the related collection
ExistsInTarget(expr, collection) ==
    LET root_relationship == request.coll_rel[expr.relationship]
    IN  <<"EXISTS", "(", "SELECT", "1", "FROM">>
            \o create_qualified_table_name(Metadata[root_relationship.target_collection])
            \o <<"WHERE", "(">>
            \o sub_query_clause(create_qualified_table_name(Metadata[collection]),
                                root_relationship.column_mapping)
            \o <<"AND">> \o OnItsOwn(expr.predicate.v, root_relationship.target_collection)
            \o <<")">> \o create_arguments(request.vars, expr.arguments, 1).v \o <<")">>

\* C23: in an Exists over a related collection the nested predicate is
\* compiled in the scope of the related collection: the table names in its
\* text (the FROM table of an empty-list sub-select, the parent side of a
\* nested Exists correlation) are the related collection's, not the outer one's.
C23_NestedInTargetScope ==
    \A d \in Compiled("Exists") :
        IsSome(stack[d].query.predicate.v.predicate) =>
            stack[d].components.predicates =
                ExistsInTarget(stack[d].query.predicate.v, stack[d].coll)

\* a statement over orders was submitted whose sub-query over customers
\* has the table orders in the text of its nested predicate
C23_OuterTableInNested ==
    /\ IsSome(request.query.predicate) /\ request.query.predicate.v.t = "Exists"
    /\ stmts # <<>> /\ stmts[1].statement.collection = "orders"
    /\ LET text == stmts[1].statement.where
       IN  /\ Len(text) > 23 /\ text[7] = "customers"
           /\ \E j \in 23..(Len(text) - 2) : text[j] = "FROM" /\ text[j + 2] = "orders"

----------------------------------------------------------------------------
(* C30 *)

\* the comparisons with a variable that is bound
WithBoundVariable ==
    {d \in Compiled("BinaryComparisonOperator") :
        /\ stack[d].query.predicate.v.value.k = "variable"
        /\ stack[d].query.predicate.v.value.name \in DOMAIN request.vars}

\* the same comparison with the literal scalar that the variable is bound to
WithLiteral(expr) == [expr EXCEPT !.value = request.vars[expr.value.name]]

\* C30: a comparison with a variable bound to v compiles to the same text as
\* the comparison with the literal scalar v: the same quote escaping, the
\* same parenthesized array, the same always-false sub-select for an empty array.
C30_VariableAsLiteral ==
    \A d \in WithBoundVariable :
        stack[d].components.predicates =
            OnItsOwn(WithLiteral(stack[d].query.predicate.v), stack[d].coll)

\* a variable bound to an empty array reached the engine as 'IN []'
C30_BracketsSubmitted ==
    /\ stmts # <<>>
    /\ request.query.predicate = Some(BinaryComparison("customer_id", "_in", VariableValue("none")))
    /\ stmts[1].statement.where = <<"\"", "customer_id", "\"", "IN", "[", "]">>
    /\ stmts[1].result # "Ok"


----------------------------------------------------------------------------
(* C28 *)

\* the statements submitted for the aggregates of the request
AggregateStatements ==
    {i \in DOMAIN stmts : stmts[i].depth = 1 /\ stmts[i].phrase = "aggregates"}

\* C28: the statement issued for a query's aggregates carries the query's
\* filter clause but neither its LIMIT nor its OFFSET clause.
C28_AggregatesUnpaginated ==
    \A i \in AggregateStatements :
        /\ stmts[i].statement.where =
              (IF IsSome(request.query.predicate)
               THEN OnItsOwn(request.query.predicate.v, request.coll) ELSE <<>>)
        /\ stmts[i].statement.pagination.limit = None
        /\ stmts[i].statement.pagination.offset = None

\* a request with offset 1 counted the rows of a table that has rows, its
\* aggregate statement had the OFFSET clause and was answered, and the count
\* returned is the default 0
C28_CountLostToOffset ==
    /\ Answered /\ request.query.offset = Some(U32(1))
    /\ engine.tables["orders"] # <<>>
    /\ \E i \in AggregateStatements :
          stmts[i].statement.pagination.offset = Some(U32(1)) /\ stmts[i].result = "Ok"
    /\ IsSome(outcome.v.aggregates)
    /\ "count" \in DOMAIN outcome.v.aggregates.v
    /\ outcome.v.aggregates.v["count"] = Num(0)

----------------------------------------------------------------------------
(* C29 *)

\* C29: stitching a relationship into parent rows of which some lack the
\* source key column succeeds, and these rows get the relationship field
\* with no children.
C29_KeylessParentStitched ==
    [][\A t \in {Object, Array} :
          (Stitching(t) /\ \E i \in Parents : ~HasKey(i)) =>
              /\ Len(stack') = Len(stack) - 1
              /\ \A i \in Parents :
                    ~HasKey(i) =>
                        /\ Caller.pending.v.field_name \in DOMAIN After(i)
                        /\ Kids(After(i)[Caller.pending.v.field_name]) = <<>>
      ]_vars

\* an order whose customer_id the engine left out as null made the stitching
\* panic after its child statement was answered
C29_KeylessParentPanicked ==
    /\ Finished /\ outcome.k = "Panic"
    /\ outcome.at \in {"process_object_relationship: row.get(fks[0]).unwrap()",
                       "process_array_relationship: row.get(fks[0]).unwrap()"}
    /\ engine.dropNulls
    /\ \E i \in 1..Len(engine.tables["orders"]) :
          engine.tables["orders"][i]["customer_id"] = Null
    /\ Len(stmts) = 2 /\ stmts[2].depth = 2 /\ stmts[2].result = "Ok"

----------------------------------------------------------------------------
(* C24 *)

\* C24: every failure of an execution call (the engine raising an error, a
\* response that is not a JSON array of strings, a row string that is not a
\* JSON object) comes back from calcite_query as a QueryError value, never
\* as a crash of the calling thread.
C24_FailureIsError ==
    /\ \A i \in DOMAIN stmts : stmts[i].result \in {"Ok", "Err"}
    /\ (outcome # None /\ outcome.k = "Panic") =>
              outcome.at \notin {"calcite_query: result.unwrap()",
                                 "parse_to_row: serde_json::from_str(&item).unwrap()"}

\* the one statement of a request was submitted, the engine's answer had a
\* row that is no JSON object or the engine raised an error, and the request
\* ended in a panic inside calcite_query
C24_FailureCrashed ==
    /\ Finished /\ outcome.k = "Panic"
    /\ outcome.at \in {"calcite_query: result.unwrap()",
                       "parse_to_row: serde_json::from_str(&item).unwrap()"}
    /\ Len(stmts) = 1 /\ stmts[1].result = "Panic"

----------------------------------------------------------------------------
(* C25 *)

\* the lock panics of a call: lock().unwrap() on the poisoned mutex
LockPanics ==
    {Panic("get_jvm: jvm.lock().unwrap()"),
     Panic("calcite_query: get_jvm().lock().unwrap()")}

\* C25: across concurrent requests at most one statement is executing in the
\* engine at any time: the query method is called, runs and has its response
\* read while the calling thread holds the one JVM lock.
C25_OneStatementAtATime ==
    /\ Cardinality(jvm.running) <= 1
    /\ \A t \in jvm.running : threads[t].pc = "executing"
    /\ \A t \in Threads :
          threads[t].pc \in {"call", "executing", "read"} => jvm.holder = t

\* one request's statement is executing in the engine while another request
\* has passed get_jvm and waits for the lock
C25_SecondRequestWaits ==
    \E t, u \in Threads :
        /\ t # u
        /\ threads[t].pc = "executing" /\ jvm.running = {t} /\ jvm.holder = t
        /\ threads[u].pc = "lock"

----------------------------------------------------------------------------
(* C27 *)

\* C27: a request whose engine call fails does not disable the gateway: in
\* every later request the lock is acquired, no call ends in the panic of
\* lock().unwrap().
C27_LockStillAcquired ==
    /\ ~jvm.poisoned
    /\ \A t \in Threads : threads[t].result \notin LockPanics

\* a call panicked while reading the engine's answer, the lock is poisoned,
\* and a later call of another request ended in the panic of lock().unwrap()
\* without its statement reaching the engine
C27_GatewayDisabled ==
    \E t, u \in Threads :
        /\ t # u
        /\ jvm.poisoned /\ jvm.holder = 0
        /\ threads[t].pc = "idle" /\ threads[t].result \in LockPanics
        /\ threads[u].pc = "idle" /\ threads[u].result.k = "Panic"
        /\ threads[u].result \notin LockPanics

----------------------------------------------------------------------------
(* C26 *)

\* the attempts of update in which the configuration read again differed
\* from the one read before the introspection
ChangedAttempts ==
    {i \in 1..Len(cli.attempts) : cli.attempts[i].again # cli.attempts[i].existing}

====
